---- MODULE Spec2Model ----
(***************************************************************************)
(* Model of the source-position registry of kona-diagnostic:               *)
(*   compiler/kona-diagnostic/src/source/source_map.rs   (SourceMap)       *)
(*   compiler/kona-diagnostic/src/source/source_file.rs  (SourceFile)      *)
(*   compiler/kona-diagnostic/src/source/span.rs         (Span)            *)
(*                                                                         *)
(* Loader calls are split at every access to shared state (the two atomic  *)
(* counters and the RwLock around files / files_map), so that threads      *)
(* interleave exactly where the code allows it.  Lookups are pure queries  *)
(* of the registry and are operators over the current state.               *)
(***************************************************************************)
EXTENDS Integers, Sequences, FiniteSets, TLC

\* ------------------------------------------------------------------ bounds

\* Number of threads that call the loaders concurrently.
NumThreads == 2

\* Number of load calls that get past the dedupe check (each allocates
\* position space once).
MaxLoads == 2

Threads == 1..NumThreads

\* Number of characters of the source texts a SourceFile is built from.
MaxChars == 3

\* Largest start_pos a SourceFile is built at.
MaxOrigin == 2

\* Largest position handed to the Span constructors.
MaxPos == 3

\* ------------------------------------------------------------- input sets

\* Source texts (UTF-8 byte sequences) a caller or the file system may
\* supply: "" and "a\n".
SourceTexts == {<<>>, <<97, 10>>}

\* Optional names of test files: None.
NoName == "<none>"
Names == {NoName}

\* Paths handed to load_local_file.  "a" and "./a" name the same file,
\* "missing" does not exist.
Paths == {"a", "./a", "missing"}

\* The characters of the texts a SourceFile is built from, each as its
\* UTF-8 bytes: 'a', '\n', '\r', '\t', DEL, U+03BB (2 bytes, width 1),
\* U+0301 (2 bytes, combining, width 0), U+4E2D (3 bytes, width 2).
Chars ==
    {<<97>>, <<10>>, <<13>>, <<9>>, <<127>>,
     <<206, 187>>, <<204, 129>>, <<228, 184, 173>>}

\* The texts of n characters.
RECURSIVE TextsOfLength(_)
TextsOfLength(n) ==
    IF n = 0 THEN {<<>>}
    ELSE {t \o c : t \in TextsOfLength(n - 1), c \in Chars}

\* "a\r\nb\rc\n", the text of mixed line endings.
MixedLineEndings == <<97, 13, 10, 98, 13, 99, 10>>

\* Every text of at most MaxChars characters, and the longer example.
Texts ==
    UNION {TextsOfLength(n) : n \in 0..MaxChars} \cup {MixedLineEndings}

\* The positions a SourceFile is built at.
Origins == 1..MaxOrigin

VARIABLES
    used_pos_space,            \* SourceMap.used_pos_space (AtomicUsize)
    used_virtual_file_number,  \* SourceMap.used_virtual_file_number (AtomicU32)
    files,                     \* SourceMapFiles.files (Vec<Rc<SourceFile>>)
    files_map,                 \* SourceMapFiles.files_map (HashMap)
    pc,                        \* per thread: position inside the running call
    local,                     \* per thread: the call's local variables
    ret,                       \* value returned by the last call to return
    returned,                  \* history: files some load_* call has returned
    loads,                     \* history: calls that got past the dedupe check
    text,                      \* the source text given to SourceFile::test_file
    origin,                    \* the start_pos given to SourceFile::test_file
    source_file,               \* the SourceFile built from them, None before
    span_self,                 \* a Span value in hand (`self` of across)
    span_other,                \* a second Span value in hand (`other`)
    span_ret,                  \* result of the last call of a Span constructor
    builder,                   \* the DiagnosticBuilder in hand, None if none
    emitter_log,               \* history: the builders (by id) whose diagnostic
                               \* the emitter was handed, in order
    poisoned,                  \* DiagnosticEngine.inner (Mutex) is poisoned
    created,                   \* history: number of builders created so far
    builder_ret,               \* outcome of the last call on a builder
    aborted,                   \* the process has aborted (panic in a panic)
    interner,                  \* GLOBAL_INTERNER: storage, symbols, names
    intern_log,                \* history: the Symbol::intern calls, in order
    symbol_ret,                \* value returned by the last call on a Symbol
    chunks,                    \* TypedArena.chunks (ChunkList), None before new
    allocated,                 \* history: number of values given to the arena
    handed,                    \* history: the references the arena returned
    arena_ret,                 \* outcome of the last call on the arena
    tty_source_map,            \* TtyEmitter.source_map is Some(..)
    tty_diagnostic,            \* the Diagnostic a caller hands to the emitter
    tty_out,                   \* the rows TtyEmitter has written to its writer
    tty_ret,                   \* outcome of the last TtyEmitter::emit_diagnostic
    diff_path,                 \* the `path` a caller hands to diff_paths
    diff_base,                 \* the `base` a caller hands to diff_paths
    diff_ret                   \* value returned by the last call of diff_paths

\* The state of a SourceMap and of the threads that call it.
SourceMapVars == <<used_pos_space, used_virtual_file_number, files, files_map,
                   pc, local, ret, returned, loads>>

\* The state of a SourceFile built on its own.
SourceFileVars == <<text, origin, source_file>>

\* The Span values of a caller of the Span constructors.
SpanVars == <<span_self, span_other, span_ret>>

\* A DiagnosticEngine and the DiagnosticBuilder of a caller.
BuilderVars == <<builder, emitter_log, poisoned, created, builder_ret, aborted>>

\* The global Interner and the callers of Symbol::intern.
InternerVars == <<interner, intern_log, symbol_ret>>

\* A TypedArena and the references its caller holds.
ArenaVars == <<chunks, allocated, handed, arena_ret>>

\* A TtyEmitter, the diagnostic it is handed and what it has written.
EmitterVars == <<tty_source_map, tty_diagnostic, tty_out, tty_ret>>

\* The arguments and the result of a caller of path_helper::diff_paths.
PathVars == <<diff_path, diff_base, diff_ret>>

vars == <<SourceMapVars, SourceFileVars, SpanVars, BuilderVars, InternerVars,
          ArenaVars, EmitterVars, PathVars>>

\* What the operations of each part leave alone.
OutsideSourceMap ==
    <<SourceFileVars, SpanVars, BuilderVars, InternerVars, ArenaVars,
      EmitterVars, PathVars>>
OutsideSourceFile ==
    <<SourceMapVars, SpanVars, BuilderVars, InternerVars, ArenaVars,
      EmitterVars, PathVars>>
OutsideSpan ==
    <<SourceMapVars, SourceFileVars, BuilderVars, InternerVars, ArenaVars,
      EmitterVars, PathVars>>
OutsideBuilder ==
    <<SourceMapVars, SourceFileVars, SpanVars, InternerVars, ArenaVars,
      EmitterVars, PathVars>>
OutsideInterner ==
    <<SourceMapVars, SourceFileVars, SpanVars, BuilderVars, ArenaVars,
      EmitterVars, PathVars>>
OutsideArena ==
    <<SourceMapVars, SourceFileVars, SpanVars, BuilderVars, InternerVars,
      EmitterVars, PathVars>>
OutsideEmitter ==
    <<SourceMapVars, SourceFileVars, SpanVars, BuilderVars, InternerVars,
      ArenaVars, PathVars>>
OutsidePath ==
    <<SourceMapVars, SourceFileVars, SpanVars, BuilderVars, InternerVars,
      ArenaVars, EmitterVars>>

\* ---------------------------------------------------------------- results

Ok(v) == [tag |-> "Ok", val |-> v]
Err(e) == [tag |-> "Err", err |-> e]
Panic == [tag |-> "Panic"]
NoRet == [tag |-> "None"]

IsOk(r) == r.tag = "Ok"

\* ------------------------------------------------------------- SourcePath

\* std::fs::canonicalize: resolves "./a" to "a"; fails for a missing file.
canonicalize(path) ==
    IF path = "missing" THEN Err("io")
    ELSE IF path = "./a" THEN Ok("a")
    ELSE Ok(path)

\* SourcePath::local_file
local_file_path(path) == [kind |-> "Local", name |-> path, uid |-> 0]

\* SourcePath::test_file
test_file_path(name, uid) == [kind |-> "Test", name |-> name, uid |-> uid]

\* ------------------------------------------------------------------- Span

\* Span::new (the debug assertion rejects a zero endpoint)
Span_new(start, end) ==
    IF start # 0 /\ end # 0 THEN [start |-> start, end |-> end] ELSE Panic

\* Span::dummy
Span_dummy == [start |-> 0, end |-> 0]

\* Ord::min and Ord::max of two positions.
Pos_min(a, b) == IF a <= b THEN a ELSE b
Pos_max(a, b) == IF a >= b THEN a ELSE b

\* Span::across that keeps the start of self.
across_from_own_start(span, other) ==
    [start |-> span.start,
     end |-> Pos_max(span.end, other.end)]

\* Span::across
across(span, other) ==
    [start |-> Pos_min(span.start, other.start),
     end |-> Pos_max(span.end, other.end)]

\* Span::is_dummy
Span_is_dummy(span) == <<span.start, span.end>> = <<0, 0>>

\* Span::cross_over
cross_over(span, other) ==
    span.start <= other.start /\ span.end >= other.end

\* Span::contains
Span_contains(span, other) ==
    span.start <= other /\ other <= span.end

\* ------------------------------------------------------------- SourceFile

\* Bytes that SourceFile::analyze matches on: b'\n', b'\r', b'\t'.
LF == 10
CR == 13
TAB == 9

\* MultiByteChar::new
MultiByteChar_new(pos, len) == [pos |-> pos, len |-> len]

\* NonNarrowChar::new: the kind is chosen from the east asian width.
NonNarrowChar_new(pos, width) ==
    [pos |-> pos,
     kind |-> IF width = 0 THEN "ZeroWidth"
              ELSE IF width = 2 THEN "Wide"
              ELSE "Tab"]

\* NonNarrowChar::width with a tab of 8 columns.
NonNarrowChar_width_with_wide_tab(c) ==
    IF c.kind = "ZeroWidth" THEN 0
    ELSE IF c.kind = "Wide" THEN 2
    ELSE 8

\* NonNarrowChar::width
NonNarrowChar_width(c) ==
    IF c.kind = "ZeroWidth" THEN 0
    ELSE IF c.kind = "Wide" THEN 2
    ELSE 4

\* char::len_utf8 of the character whose first byte is `byte`.
len_utf8(byte) ==
    IF byte < 128 THEN 1
    ELSE IF byte < 224 THEN 2
    ELSE IF byte < 240 THEN 3
    ELSE 4

\* UnicodeWidthChar::width(char).unwrap_or(0) for the characters of the
\* model's alphabet, told apart by their first byte: DEL (127) has no
\* width, a combining mark (first byte 204) has width 0, a Han character
\* (first byte 228) has width 2, every other character has width 1.
char_width(byte) ==
    IF byte = 127 \/ byte = 204 THEN 0
    ELSE IF byte = 228 THEN 2
    ELSE 1

\* src_bytes.get(idx) that reads the byte before idx.
bytes_get_one_before(src, idx) ==
    IF idx >= 1 /\ idx - 1 < Len(src) THEN src[idx] ELSE 0

\* src_bytes.get(idx), idx 0-based; 0 stands for None.
bytes_get(src, idx) == IF idx < Len(src) THEN src[idx + 1] ELSE 0

\* The while loop of SourceFile::analyze, from byte index idx (0-based).
RECURSIVE analyze_loop(_, _, _, _, _, _)
analyze_loop(src, offset, idx, lines, multi_byte_chars, non_narrow_chars) ==
    IF idx >= Len(src)
    THEN [lines |-> lines,
          multi_byte_chars |-> multi_byte_chars,
          non_narrow_chars |-> non_narrow_chars]
    ELSE
      LET byte == src[idx + 1]
          pos == idx + offset
      IN
        IF byte < 32 THEN
          IF byte = LF THEN
            analyze_loop(src, offset, idx + 1, Append(lines, pos + 1),
                         multi_byte_chars, non_narrow_chars)
          ELSE IF byte = CR /\ bytes_get(src, idx + 1) # LF THEN
            analyze_loop(src, offset, idx + 1, Append(lines, pos + 1),
                         multi_byte_chars, non_narrow_chars)
          ELSE IF byte = TAB THEN
            analyze_loop(src, offset, idx + 1, lines, multi_byte_chars,
                         Append(non_narrow_chars, NonNarrowChar_new(pos, 4)))
          ELSE
            analyze_loop(src, offset, idx + 1, lines, multi_byte_chars,
                         Append(non_narrow_chars, NonNarrowChar_new(pos, 0)))
        ELSE IF byte >= 127 THEN
          LET char_len == len_utf8(byte)
              width == char_width(byte)
              mbc == IF char_len > 1
                     THEN Append(multi_byte_chars,
                                 MultiByteChar_new(pos, char_len))
                     ELSE multi_byte_chars
              nnc == IF width # 1
                     THEN Append(non_narrow_chars,
                                 NonNarrowChar_new(pos, width))
                     ELSE non_narrow_chars
          IN analyze_loop(src, offset, idx + char_len, lines, mbc, nnc)
        ELSE
          analyze_loop(src, offset, idx + 1, lines, multi_byte_chars,
                       non_narrow_chars)

\* analyze without the final lines.pop().
analyze_without_pop(src, start_pos) ==
    analyze_loop(src, start_pos, 0, <<start_pos>>, <<>>, <<>>)

\* analyze with offset 0: the positions pushed in the loop are relative to
\* the start of the file.
analyze_with_relative_positions(src, start_pos) ==
    LET r == analyze_loop(src, 0, 0, <<start_pos>>, <<>>, <<>>)
        end_pos == Len(src) + start_pos
        n == Len(r.lines)
    IN IF n > 0 /\ r.lines[n] = end_pos
       THEN [r EXCEPT !.lines = SubSeq(r.lines, 1, n - 1)]
       ELSE r

\* SourceFile::analyze: one pass over the bytes, then the line start that
\* was pushed at the very end of the file is removed again.
analyze(src, start_pos) ==
    LET r == analyze_loop(src, start_pos, 0, <<start_pos>>, <<>>, <<>>)
        end_pos == Len(src) + start_pos
        n == Len(r.lines)
    IN IF n > 0 /\ r.lines[n] = end_pos
       THEN [r EXCEPT !.lines = SubSeq(r.lines, 1, n - 1)]
       ELSE r

\* SourceFile::new
SourceFile_new(path, src, start_pos) ==
    LET end_pos == start_pos + Len(src)
        tables == analyze(src, start_pos)
    IN [path |-> path,
        src |-> src,
        span |-> Span_new(start_pos, end_pos),
        lines |-> tables.lines,
        multi_byte_chars |-> tables.multi_byte_chars,
        non_narrow_chars |-> tables.non_narrow_chars]

\* SourceFile::contains, called contains_pos by SourceMap: both ends of the
\* span are included.
contains_pos(file, pos) ==
    pos >= file.span.start /\ pos <= file.span.end

\* SourceFile::is_empty
is_empty(file) == file.span.start = file.span.end

\* SourceFile::start_pos
file_start_pos(file) == file.span.start

\* Option values.
None == [tag |-> "None"]
Some(v) == [tag |-> "Some", val |-> v]

\* lookup_line whose search takes the last line start < pos.
lookup_line_strictly_before(file, pos) ==
    LET lt == {i \in 1..Len(file.lines) : file.lines[i] < pos}
    IN IF lt = {} THEN None ELSE Some(Cardinality(lt) - 1)

\* SourceFile::lookup_line, called lookup_line_at_pos by SourceMap: the
\* 0-based index of the last line start <= pos (a binary search of the
\* strictly increasing `lines`), None when there is none.
lookup_line(file, pos) ==
    LET le == {i \in 1..Len(file.lines) : file.lines[i] <= pos}
    IN IF le = {} THEN None ELSE Some(Cardinality(le) - 1)

\* Sum of f[i] for i in lo..hi.
RECURSIVE SumOver(_, _, _)
SumOver(f, lo, hi) == IF lo > hi THEN 0 ELSE f[lo] + SumOver(f, lo + 1, hi)

\* The entries of a position table (sorted by pos) from the first entry at
\* or after linebpos, for as long as they lie before pos:
\* table[start_idx..].iter().take_while(|x| x.pos() < pos).
entries_between(table, linebpos, pos) ==
    LET start_idx == Cardinality({i \in 1..Len(table) :
                                     table[i].pos < linebpos})
        stop == IF \E i \in (start_idx + 1)..Len(table) : table[i].pos >= pos
                THEN CHOOSE i \in (start_idx + 1)..Len(table) :
                         /\ table[i].pos >= pos
                         /\ \A j \in (start_idx + 1)..(i - 1) :
                                table[j].pos < pos
                ELSE Len(table) + 1
    IN SubSeq(table, start_idx + 1, stop - 1)

\* SourceFile::lookup_line_and_col: the 1-based line and the column, line 0
\* and column 0 when pos lies before the first line start.  The column is
\* computed in usize: the subtraction of extra_byte overflows (and panics,
\* as the debug assertions of this crate do) when pos lies inside a
\* multi-byte character.
lookup_line_and_col(file, pos) ==
    LET line == lookup_line(file, pos)
    IN IF line = None THEN [line |-> 0, col |-> 0]
       ELSE LET line_start == file.lines[line.val + 1]
                mbcs == entries_between(file.multi_byte_chars, line_start, pos)
                extra_byte == SumOver([i \in 1..Len(mbcs) |-> mbcs[i].len - 1],
                                      1, Len(mbcs))
            IN IF pos - line_start < extra_byte THEN Panic
               ELSE [line |-> line.val + 1,
                     col |-> pos - line_start - extra_byte]

\* SourceFile::lookup_line_col_and_col_display: line, col and col_display;
\* self.lines[line - 1] fails when lookup_line_and_col found no line, and
\* col + width - count is computed in usize.
lookup_line_col_and_col_display(file, pos) ==
    LET lc == lookup_line_and_col(file, pos)
    IN IF lc = Panic THEN Panic
       ELSE IF lc.line = 0 THEN Panic
       ELSE LET linebpos == file.lines[lc.line]
                nncs == entries_between(file.non_narrow_chars, linebpos, pos)
                width == SumOver([i \in 1..Len(nncs) |->
                                     NonNarrowChar_width(nncs[i])],
                                 1, Len(nncs))
            IN IF lc.col + width < Len(nncs) THEN Panic
               ELSE [line |-> lc.line, col |-> lc.col,
                     col_display |-> lc.col + width - Len(nncs)]

\* SourceFile::test_file: the uid of the path is start_pos.
SourceFile_test_file(src, name, start_pos) ==
    SourceFile_new(test_file_path(name, start_pos), src, start_pos)

\* -------------------------------------------------------------- SourceMap

\* The local variables of a thread that runs no call.
IdleLocal ==
    [op |-> "none", name |-> NoName, path |-> "", src |-> <<>>,
     current |-> 0, next |-> 0, uid |-> 0, start |-> 0]

\* SourceMap::new
SourceMap_new ==
    /\ used_pos_space = 1
    /\ used_virtual_file_number = 0
    /\ files = <<>>
    /\ files_map = [k \in {} |-> k]
    /\ pc = [t \in Threads |-> "idle"]
    /\ local = [t \in Threads |-> IdleLocal]
    /\ ret = NoRet
    /\ returned = {}
    /\ loads = 0

\* No SourceFile has been built on its own: the empty text at position 1.
NoSourceFile ==
    /\ text = <<>>
    /\ origin = 1
    /\ source_file = None

\* No Span has been constructed: both values in hand are Span::default().
NoSpan ==
    /\ span_self = Span_dummy
    /\ span_other = Span_dummy
    /\ span_ret = NoRet

\* DiagnosticEngine::with_emitter: the emitter has been handed nothing, the
\* mutex around it is not poisoned, and no builder has been created.
NoBuilder ==
    /\ builder = None
    /\ emitter_log = <<>>
    /\ poisoned = FALSE
    /\ created = 0
    /\ builder_ret = NoRet
    /\ aborted = FALSE

\* Interner::default(): nothing is interned.
Interner_default == [storage |-> <<>>, symbols |-> <<>>, names |-> <<>>]

\* GLOBAL_INTERNER before the first call of Symbol::intern.
NoSymbol ==
    /\ interner = Interner_default
    /\ intern_log = <<>>
    /\ symbol_ret = NoRet

\* No TypedArena has been constructed.
NoArena ==
    /\ chunks = None
    /\ allocated = 0
    /\ handed = {}
    /\ arena_ret = NoRet

\* No TtyEmitter has been handed a diagnostic: TtyEmitter::no_source_map()
\* and the diagnostic { level: Error, message: "", primary label: the dummy
\* span with an empty message, no sublabels }.
NoEmitter ==
    /\ tty_source_map = FALSE
    /\ tty_diagnostic =
          [level |-> "Error", message |-> "",
           labels |-> [primary_label |->
                          [span |-> Span_dummy, message |-> ""],
                       sublabels |-> <<>>]]
    /\ tty_out = <<>>
    /\ tty_ret = NoRet

\* diff_paths has not been called: both paths in hand are the empty path.
NoPath ==
    /\ diff_path = [absolute |-> FALSE, segments |-> <<>>]
    /\ diff_base = [absolute |-> FALSE, segments |-> <<>>]
    /\ diff_ret = NoRet

\* The state after SourceMap::new.
Init ==
    /\ SourceMap_new
    /\ NoSourceFile
    /\ NoSpan
    /\ NoBuilder
    /\ NoSymbol
    /\ NoArena
    /\ NoEmitter
    /\ NoPath

\* A call of thread t returns value r: the thread is idle again.
Return(t, r) ==
    /\ ret' = r
    /\ returned' = IF IsOk(r) THEN returned \cup {r.val} ELSE returned
    /\ pc' = [pc EXCEPT ![t] = "idle"]
    /\ local' = [local EXCEPT ![t] = IdleLocal]
    /\ UNCHANGED OutsideSourceMap

\* Thread t moves on to `label` with its local variables set to l.
Goto(t, label, l) ==
    /\ pc' = [pc EXCEPT ![t] = label]
    /\ local' = [local EXCEPT ![t] = l]
    /\ UNCHANGED <<ret, returned>>
    /\ UNCHANGED OutsideSourceMap

\* files.files.push(file); files.files_map.insert(file_path, file), under
\* the write lock.
Register(file_path, file) ==
    /\ files' = Append(files, file)
    /\ files_map' = [k \in DOMAIN files_map \cup {file_path} |->
                        IF k = file_path THEN file ELSE files_map[k]]

\* load_test_file(name, src) up to the first compare_exchange of
\* allocate_virtual_file_number: the load before the loop, and
\* next = current + 1.
load_test_file_call(t) ==
    /\ pc[t] = "idle"
    /\ loads < MaxLoads
    /\ \E name \in Names, src \in SourceTexts :
          /\ pc' = [pc EXCEPT ![t] = "uid_cas"]
          /\ local' = [local EXCEPT ![t] =
                 [IdleLocal EXCEPT !.op = "test", !.name = name, !.src = src,
                                   !.current = used_virtual_file_number,
                                   !.next = used_virtual_file_number + 1]]
    /\ loads' = loads + 1
    /\ UNCHANGED <<used_pos_space, used_virtual_file_number, files,
                   files_map, ret, returned>>
    /\ UNCHANGED OutsideSourceMap

\* allocate_virtual_file_number, the loop body run again after a failed
\* compare_exchange: next = current + 1, current being the value loaded
\* before the loop.
allocate_virtual_file_number_retry(t) ==
    /\ pc[t] = "uid_retry"
    /\ Goto(t, "uid_cas", [local[t] EXCEPT !.next = local[t].current + 1])
    /\ UNCHANGED <<used_pos_space, used_virtual_file_number, files,
                   files_map, loads>>

\* allocate_virtual_file_number, the compare_exchange: on success the call
\* returns current, on failure the loop body runs again .
allocate_virtual_file_number_cas(t) ==
    /\ pc[t] = "uid_cas"
    /\ IF used_virtual_file_number = local[t].current
       THEN /\ used_virtual_file_number' = local[t].next
            /\ Goto(t, "test_check",
                    [local[t] EXCEPT !.uid = local[t].current])
       ELSE /\ Goto(t, "uid_retry", local[t])
            /\ UNCHANGED used_virtual_file_number
    /\ UNCHANGED <<used_pos_space, files, files_map, loads>>

\* load_test_file, the lookup of the new path in files_map under the read
\* lock.
load_test_file_check(t) ==
    /\ pc[t] = "test_check"
    /\ LET file_path == test_file_path(local[t].name, local[t].uid)
       IN IF file_path \in DOMAIN files_map
          THEN Return(t, Ok(files_map[file_path]))
          ELSE Goto(t, "alloc_load", local[t])
    /\ UNCHANGED <<used_pos_space, used_virtual_file_number, files,
                   files_map, loads>>

\* allocate_pos_space(src.len()) up to the first compare_exchange: the load
\* before the loop, and next = current + size + 1.
allocate_pos_space_load(t) ==
    /\ pc[t] = "alloc_load"
    /\ Goto(t, "alloc_cas",
            [local[t] EXCEPT !.current = used_pos_space,
                             !.next = used_pos_space + Len(local[t].src) + 1])
    /\ UNCHANGED <<used_pos_space, used_virtual_file_number, files,
                   files_map, loads>>

\* allocate_pos_space, the loop body run again after a failed
\* compare_exchange: next = current + size + 1, current being the value
\* loaded before the loop.
allocate_pos_space_retry(t) ==
    /\ pc[t] = "alloc_retry"
    /\ Goto(t, "alloc_cas",
            [local[t] EXCEPT !.next = local[t].current + Len(local[t].src) + 1])
    /\ UNCHANGED <<used_pos_space, used_virtual_file_number, files,
                   files_map, loads>>

\* allocate_pos_space, the compare_exchange: on success the call returns
\* current, on failure the loop body runs again.
allocate_pos_space_cas(t) ==
    /\ pc[t] = "alloc_cas"
    /\ IF used_pos_space = local[t].current
       THEN /\ used_pos_space' = local[t].next
            /\ Goto(t, IF local[t].op = "test" THEN "test_push"
                                               ELSE "local_push",
                    [local[t] EXCEPT !.start = local[t].current])
       ELSE /\ Goto(t, "alloc_retry", local[t])
            /\ UNCHANGED used_pos_space
    /\ UNCHANGED <<used_virtual_file_number, files, files_map, loads>>

\* load_test_file, from SourceFile::test_file to the return: the file is
\* built, pushed and inserted under the write lock, and returned.
load_test_file_push(t) ==
    /\ pc[t] = "test_push"
    /\ LET file_path == test_file_path(local[t].name, local[t].uid)
           file == SourceFile_new(file_path, local[t].src, local[t].start)
       IN /\ Register(file_path, file)
          /\ Return(t, Ok(file))
    /\ UNCHANGED <<used_pos_space, used_virtual_file_number, loads>>

\* load_local_file_call without the lookup in files_map: every call whose
\* path canonicalizes goes on to read the file and allocate.
load_local_file_call_without_dedupe(t, path) ==
    /\ pc[t] = "idle"
    /\ LET canon == canonicalize(path)
       IN IF ~IsOk(canon)
          THEN /\ Return(t, canon)
               /\ UNCHANGED loads
          ELSE /\ loads < MaxLoads
               /\ loads' = loads + 1
               /\ pc' = [pc EXCEPT ![t] = "local_read"]
               /\ local' = [local EXCEPT ![t] =
                      [IdleLocal EXCEPT !.op = "local", !.path = path]]
               /\ UNCHANGED <<ret, returned>>
               /\ UNCHANGED OutsideSourceMap
    /\ UNCHANGED <<used_pos_space, used_virtual_file_number, files,
                   files_map>>

\* load_local_file(path), from the canonicalization to the lookup of the
\* path in files_map under the read lock.
load_local_file_call(t, path) ==
    /\ pc[t] = "idle"
    /\ LET canon == canonicalize(path)
           file_path == local_file_path(canon.val)
       IN IF ~IsOk(canon)
          THEN /\ Return(t, canon)
               /\ UNCHANGED loads
          ELSE IF file_path \in DOMAIN files_map
          THEN /\ Return(t, Ok(files_map[file_path]))
               /\ UNCHANGED loads
          ELSE /\ loads < MaxLoads
               /\ loads' = loads + 1
               /\ pc' = [pc EXCEPT ![t] = "local_read"]
               /\ local' = [local EXCEPT ![t] =
                      [IdleLocal EXCEPT !.op = "local", !.path = path]]
               /\ UNCHANGED <<ret, returned>>
               /\ UNCHANGED OutsideSourceMap
    /\ UNCHANGED <<used_pos_space, used_virtual_file_number, files,
                   files_map>>

\* load_local_file, fs::read_to_string(&path): the text the file holds at
\* this moment, or an I/O error.
load_local_file_read(t) ==
    /\ pc[t] = "local_read"
    /\ \E r \in {Err("io")} \cup {Ok(s) : s \in SourceTexts} :
          IF IsOk(r)
          THEN Goto(t, "alloc_load", [local[t] EXCEPT !.src = r.val])
          ELSE Return(t, r)
    /\ UNCHANGED <<used_pos_space, used_virtual_file_number, files,
                   files_map, loads>>

\* load_local_file, from SourceFile::local_file to the return: the path is
\* canonicalized and the file read a second time (the text it holds now),
\* the SourceFile is built from that text, pushed and inserted under the
\* write lock, and returned.
load_local_file_push(t) ==
    /\ pc[t] = "local_push"
    /\ \E r \in {Err("io")} \cup {Ok(s) : s \in SourceTexts} :
          IF IsOk(r)
          THEN LET file_path ==
                       local_file_path(canonicalize(local[t].path).val)
                   file == SourceFile_new(file_path, r.val, local[t].start)
               IN /\ Register(file_path, file)
                  /\ Return(t, Ok(file))
          ELSE /\ Return(t, r)
               /\ UNCHANGED <<files, files_map>>
    /\ UNCHANGED <<used_pos_space, used_virtual_file_number, loads>>

\* The next step of the call that thread t is running.
Continue(t) ==
    \/ allocate_virtual_file_number_retry(t)
    \/ allocate_virtual_file_number_cas(t)
    \/ load_test_file_check(t)
    \/ allocate_pos_space_load(t)
    \/ allocate_pos_space_retry(t)
    \/ allocate_pos_space_cas(t)
    \/ load_test_file_push(t)
    \/ load_local_file_read(t)
    \/ load_local_file_push(t)

Next ==
    \E t \in Threads :
        \/ load_test_file_call(t)
        \/ \E path \in Paths : load_local_file_call(t, path)
        \/ Continue(t)

Spec == Init /\ [][Next]_vars

\* ------------------------------------------------ Span values of a caller

\* The positions a caller hands to the Span constructors.
SpanPositions == 0..MaxPos

\* What a caller holds after a constructor returned r: the new value as
\* span_self and the value it held before as span_other; a call that
\* panicked leaves it with the values it held.
SpanKeep(r) ==
    IF IsOk(r)
    THEN span_self' = r.val /\ span_other' = span_self
    ELSE UNCHANGED <<span_self, span_other>>

\* The result of a call that evaluates to a Span or panics.
SpanResult(v) == IF v = Panic THEN Panic ELSE Ok(v)

\* Span::new(start, end)
Span_new_call(start, end) ==
    /\ span_ret' = SpanResult(Span_new(start, end))
    /\ SpanKeep(span_ret')
    /\ UNCHANGED OutsideSpan

\* Span::from(range) and Span::from(pair), for Range<Pos>, Range<u32>,
\* Range<usize>, (u32, u32) and (usize, usize): each is
\* Span::new(rng.start, rng.end).
Span_from_call(start, end) ==
    /\ span_ret' = SpanResult(Span_new(start, end))
    /\ SpanKeep(span_ret')
    /\ UNCHANGED OutsideSpan

\* Span::dummy() and Span::default()
Span_dummy_call ==
    /\ span_ret' = Ok(Span_dummy)
    /\ SpanKeep(span_ret')
    /\ UNCHANGED OutsideSpan

\* span_self.across(span_other)
across_call ==
    /\ span_ret' = Ok(across(span_self, span_other))
    /\ SpanKeep(span_ret')
    /\ UNCHANGED OutsideSpan

SpanNext ==
    \/ \E start \in SpanPositions, end \in SpanPositions :
          Span_new_call(start, end)
    \/ \E start \in SpanPositions, end \in SpanPositions :
          Span_from_call(start, end)
    \/ Span_dummy_call
    \/ across_call

SpanSpec == Init /\ [][SpanNext]_vars

\* ------------------------------------------- a SourceFile built on its own

\* A caller holds a source text and a start position.
SourceFileInit ==
    /\ SourceMap_new
    /\ NoSpan
    /\ NoBuilder
    /\ NoSymbol
    /\ NoArena
    /\ NoEmitter
    /\ NoPath
    /\ text \in Texts
    /\ origin \in Origins
    /\ source_file = None

\* SourceFile::test_file(src, None, start_pos)
SourceFile_test_file_call ==
    /\ source_file = None
    /\ source_file' = Some(SourceFile_test_file(text, NoName, origin))
    /\ UNCHANGED <<text, origin>>
    /\ UNCHANGED OutsideSourceFile

SourceFileNext == SourceFile_test_file_call

SourceFileSpec == SourceFileInit /\ [][SourceFileNext]_vars

\* Every thread that is inside a call keeps running: the scheduler lets it
\* take its next step.  Nothing obliges an idle thread to start a call.
FairSpec == Spec /\ \A t \in Threads : WF_vars(Continue(t))

\* ------------------------------------------------------ SourceMap lookups

\* files.binary_search_by_key(&pos, |file| file.start_pos()): [found, idx]
\* stands for Ok(idx) and Err(idx), idx 0-based.  The search returns
\* Ok(idx) only for an element whose key is pos, and Err(idx) only for an
\* insertion point whose left neighbour compared less and whose right
\* neighbour compared greater.  On a sorted vector that is one outcome; on
\* an unsorted one the outcome is unspecified, and is any of these.
binary_search_by_key(fs, pos) ==
    {[found |-> TRUE, idx |-> i - 1] :
        i \in {j \in 1..Len(fs) : file_start_pos(fs[j]) = pos}}
    \cup
    {[found |-> FALSE, idx |-> k] :
        k \in {j \in 0..Len(fs) :
                 /\ (j = 0 \/ file_start_pos(fs[j]) < pos)
                 /\ (j = Len(fs) \/ file_start_pos(fs[j + 1]) > pos)}}

\* Pos::is_dummy
is_dummy(pos) == pos = 0

\* lookup_file_at_pos without the is_dummy test.
lookup_file_at_pos_without_dummy_test(pos) ==
    {IF search_result.found
     THEN LET file == files[search_result.idx + 1]
          IN IF is_empty(file) THEN Err("OutOfRange") ELSE Ok(file)
     ELSE IF search_result.idx = 0 THEN Panic
     ELSE LET file == files[search_result.idx]
          IN IF contains_pos(file, pos) THEN Ok(file)
             ELSE Err("OutOfRange") :
     search_result \in binary_search_by_key(files, pos)}

\* SourceMap::lookup_file_at_pos: the set of results the call can produce
\* (one result when `files` is sorted by start_pos).  With Err(0) from the
\* search the debug assertion res > 0 fails, and without it res - 1
\* underflows and indexes out of bounds.
lookup_file_at_pos(pos) ==
    IF is_dummy(pos) THEN {Err("DummyPosOrSpan")}
    ELSE {IF search_result.found
          THEN LET file == files[search_result.idx + 1]
               IN IF is_empty(file) THEN Err("OutOfRange") ELSE Ok(file)
          ELSE IF search_result.idx = 0 THEN Panic
          ELSE LET file == files[search_result.idx]
               IN IF contains_pos(file, pos) THEN Ok(file)
                  ELSE Err("OutOfRange") :
          search_result \in binary_search_by_key(files, pos)}

\* lookup_file_at_span_of without the comparison of the two files.
lookup_file_at_span_of_without_comparison(start_file, end_file) ==
    IF ~IsOk(start_file) THEN start_file
    ELSE IF ~IsOk(end_file) THEN end_file
    ELSE start_file

\* SourceMap::lookup_file_at_span, after the two position lookups have
\* produced start_file and end_file (each a result; `?` hands an error of
\* the first, then of the second, to the caller).
lookup_file_at_span_of(start_file, end_file) ==
    IF ~IsOk(start_file) THEN start_file
    ELSE IF ~IsOk(end_file) THEN end_file
    ELSE IF start_file.val.span = end_file.val.span THEN start_file
    ELSE Err("SpanAcrossFiles")

\* self.lookup_file_at_pos(span.end() - 1u32) of the span lookups.  The
\* only span with end 0 is the dummy span, for which the lookup of
\* span.start() has already returned its error.
lookup_file_at_span_end(span) ==
    IF span.end = 0 THEN {Err("DummyPosOrSpan")}
    ELSE lookup_file_at_pos(span.end - 1)

\* SourceMap::lookup_file_at_span: the set of results the call can produce.
lookup_file_at_span(span) ==
    {lookup_file_at_span_of(start_file, end_file) :
        start_file \in lookup_file_at_pos(span.start),
        end_file \in lookup_file_at_span_end(span)}

\* SourceMap::contains_pos
map_contains_pos(pos) ==
    {IF IsOk(r) THEN Ok("unit") ELSE r : r \in lookup_file_at_pos(pos)}

\* SourceMap::contains_span
contains_span(span) ==
    {IF IsOk(r) THEN Ok("unit") ELSE r : r \in lookup_file_at_span(span)}

\* SourceMap::lookup_pos_info
lookup_pos_info(pos) ==
    {IF ~IsOk(r) THEN r
     ELSE LET lcc == lookup_line_col_and_col_display(r.val, pos)
          IN IF lcc = Panic THEN Panic
             ELSE Ok([file |-> r.val, line |-> lcc.line, col |-> lcc.col,
                      col_display |-> lcc.col_display]) :
     r \in lookup_file_at_pos(pos)}

\* SourceLine::new
SourceLine_new(file, line) == [file |-> file, line |-> line]

\* SourceMap::lookup_line_at_pos; the unwrap fails on None.
lookup_line_at_pos(pos) ==
    {IF ~IsOk(r) THEN r
     ELSE LET line == lookup_line(r.val, pos)
          IN IF line = None THEN Panic
             ELSE Ok(SourceLine_new(r.val, line.val)) :
     r \in lookup_file_at_pos(pos)}

\* SourceMap::lookup_lines_at_span
lookup_lines_at_span(span) ==
    {IF ~IsOk(start_file) THEN start_file
     ELSE IF ~IsOk(end_file) THEN end_file
     ELSE IF start_file.val.span = end_file.val.span
     THEN LET start_line == lookup_line(start_file.val, span.start)
              end_line == lookup_line(end_file.val, span.end - 1)
          IN IF start_line = None \/ end_line = None THEN Panic
             ELSE Ok([i \in 1..(end_line.val - start_line.val + 1) |->
                        SourceLine_new(start_file.val,
                                       start_line.val + i - 1)])
     ELSE Err("SpanAcrossFiles") :
        start_file \in lookup_file_at_pos(span.start),
        end_file \in lookup_file_at_span_end(span)}

\* SourceMap::lookup_source: file.src()[start..end] fails when start > end
\* or end > src.len().
lookup_source(span) ==
    {IF ~IsOk(r) THEN r
     ELSE LET start == span.start - file_start_pos(r.val)
              end == span.end - file_start_pos(r.val)
          IN IF start > end \/ end > Len(r.val.src) THEN Panic
             ELSE Ok(SubSeq(r.val.src, start + 1, end)) :
     r \in lookup_file_at_span(span)}

\* ------------------------------------------------- arguments of lookups

\* The largest position in use: the allocation counter or the end of a
\* registered file.
MaxEnd ==
    LET ends == {used_pos_space} \cup {files[i].span.end : i \in 1..Len(files)}
    IN CHOOSE m \in ends : \A e \in ends : e <= m

\* Every position up to one past everything in use, the dummy included.
Positions == 0..(MaxEnd + 1)

\* Every span Span::new accepts over these positions, and the dummy span.
Spans ==
    {Span_dummy} \cup
    {[start |-> a, end |-> b] : a \in Positions \ {0}, b \in Positions \ {0}}

\* ----------------------------------------------------------------- claims

\* C1: the spans of any two distinct registered files are disjoint and
\* separated by at least one unused position (zero-length files included),
\* and every file's span starts at a position >= 1.
C1_FileSpansDisjointAndGuarded ==
    /\ \A i, j \in 1..Len(files) :
          i # j => \/ files[i].span.end < files[j].span.start
                   \/ files[j].span.end < files[i].span.start
    /\ \A i \in 1..Len(files) : files[i].span.start >= 1

\* A thread is inside allocate_pos_space.
InAllocatePosSpace(t) == pc[t] \in {"alloc_load", "alloc_cas", "alloc_retry"}

\* C2: under fair scheduling every allocate_pos_space call eventually
\* returns; a caller whose compare-and-swap failed retries and completes.
C2_AllocatePosSpaceReturns ==
    \A t \in Threads :
        InAllocatePosSpace(t) ~> (pc[t] \in {"test_push", "local_push"})

\* C3: in every reachable state `files` is sorted by strictly increasing
\* span.start.
C3_FilesSortedByStart ==
    \A i, j \in 1..Len(files) :
        i < j => files[i].span.start < files[j].span.start

\* C4: once a load_* call has returned file f, every position p with
\* f.span.start <= p < f.span.end is resolved by lookup_file_at_pos to a
\* file whose span equals f.span.
C4_ReturnedFilesResolve ==
    \A f \in returned :
        \A p \in f.span.start..(f.span.end - 1) :
            \A r \in lookup_file_at_pos(p) :
                IsOk(r) /\ r.val.span = f.span

\* The step in which thread t registers a new file.
Registers(t) ==
    /\ pc[t] \in {"test_push", "local_push"}
    /\ Len(files') = Len(files) + 1

\* C5: for every file f that is registered, f.span.end - f.span.start equals
\* the byte length of f.src and equals the size that was passed to
\* allocate_pos_space for it (the length of the text the loader held when
\* it allocated, which is next - current - 1).
C5_SpanLengthIsSrcLengthAndAllocatedSize ==
    [][\A t \in Threads :
          Registers(t) =>
              LET f == files'[Len(files')]
              IN /\ f.span.end - f.span.start = Len(f.src)
                 /\ f.span.end - f.span.start =
                        local[t].next - local[t].current - 1]_vars

\* C6: no lookup operation panics, for every position, every span and every
\* registry state.
C6_LookupsNeverPanic ==
    /\ \A pos \in Positions :
          /\ Panic \notin lookup_file_at_pos(pos)
          /\ Panic \notin lookup_pos_info(pos)
          /\ Panic \notin lookup_line_at_pos(pos)
          /\ Panic \notin map_contains_pos(pos)
    /\ \A span \in Spans :
          /\ Panic \notin lookup_file_at_span(span)
          /\ Panic \notin lookup_lines_at_span(span)
          /\ Panic \notin lookup_source(span)
          /\ Panic \notin contains_span(span)

\* Position pos lies in the half-open range of some registered file.
InSomeFile(pos) ==
    \E i \in 1..Len(files) :
        files[i].span.start <= pos /\ pos < files[i].span.end

\* C7: for every non-dummy position that lies in no registered file's
\* half-open range [span.start, span.end), whatever lookup_file_at_pos
\* returns is Err(OutOfRange).
C7_OutsideEveryFileIsOutOfRange ==
    \A pos \in Positions \ {0} :
        ~InSomeFile(pos) =>
            \A r \in lookup_file_at_pos(pos) :
                r # Panic => r = Err("OutOfRange")

\* C8: for the dummy position 0, lookup_file_at_pos and lookup_pos_info
\* return Err(DummyPosOrSpan) in every registry state, and so does every
\* lookup on the dummy span (and the other lookups on position 0).
C8_DummyLookupsFail ==
    LET dummy == {Err("DummyPosOrSpan")}
    IN /\ lookup_file_at_pos(0) = dummy
       /\ lookup_pos_info(0) = dummy
       /\ lookup_line_at_pos(0) = dummy
       /\ map_contains_pos(0) = dummy
       /\ lookup_file_at_span(Span_dummy) = dummy
       /\ lookup_lines_at_span(Span_dummy) = dummy
       /\ lookup_source(Span_dummy) = dummy
       /\ contains_span(Span_dummy) = dummy

\* Witness of C8: the dummy lookups are made on a registry of several files.
C8_Witness ==
    /\ Len(files) >= 2
    /\ lookup_pos_info(0) = {Err("DummyPosOrSpan")}
    /\ lookup_file_at_span(Span_dummy) = {Err("DummyPosOrSpan")}

\* C9: lookup_file_at_span(span) returns Ok(f) exactly when span.start and
\* span.end - 1 both resolve to the same registered file f, and returns
\* Err(SpanAcrossFiles) whenever both resolve to different files; "the same
\* file" is the same registered file, not merely an equal span.
C9_SpanLookupSameFileOrAcross ==
    LET start_files == {<<p, lookup_file_at_pos(p)>> : p \in Positions}
        end_files ==
            {<<p, lookup_file_at_span_end([start |-> p, end |-> p])>> :
                p \in Positions}
        SameFileOrAcross(start_file, end_file) ==
            LET r == lookup_file_at_span_of(start_file, end_file)
                both == IsOk(start_file) /\ IsOk(end_file)
            IN /\ IsOk(r) <=> (both /\ start_file.val = end_file.val)
               /\ IsOk(r) => r.val = start_file.val
               /\ (both /\ start_file.val # end_file.val)
                     => r = Err("SpanAcrossFiles")
    \* The spans of Spans: both ends 0 (the dummy span) or both non-zero.
    IN \A at_start \in start_files, at_end \in end_files :
         (at_start[1] = 0 <=> at_end[1] = 0) =>
             \A start_file \in at_start[2], end_file \in at_end[2] :
                 SameFileOrAcross(start_file, end_file)

\* Witness of C9: a span that starts in one file and ends in another gets
\* Err(SpanAcrossFiles).
C9_Witness ==
    \E span \in Spans :
        \E start_file \in lookup_file_at_pos(span.start) :
            \E end_file \in lookup_file_at_span_end(span) :
                /\ IsOk(start_file) /\ IsOk(end_file)
                /\ start_file.val # end_file.val
                /\ Err("SpanAcrossFiles") \in lookup_file_at_span(span)

\* The canonical path of `path` is a key of files_map.
Registered(path) ==
    /\ IsOk(canonicalize(path))
    /\ local_file_path(canonicalize(path).val) \in DOMAIN files_map

\* C10: a load_local_file call for a path that is already registered
\* returns the existing SourceFile and leaves used_pos_space, files and
\* files_map unchanged.
C10_LoadLocalFileIdempotent ==
    [][\A t \in Threads : \A path \in Paths :
          (load_local_file_call(t, path) /\ Registered(path)) =>
              /\ pc'[t] = "idle"
              /\ ret' =
                    Ok(files_map[local_file_path(canonicalize(path).val)])
              /\ UNCHANGED <<used_pos_space, files, files_map>>]_vars

\* Witness of C10: `files` holds a local file and a file pushed after it,
\* and the last call to return handed back the first one.  The push of the
\* second file returned the second file, so the call that returned the
\* first one came later and found it in files_map.
C10_Witness ==
    /\ Len(files) = 2
    /\ files[1].path.kind = "Local"
    /\ files[2].path.kind = "Test"
    /\ ret = Ok(files[1])
    /\ \A t \in Threads : pc[t] = "idle"

\* Thread t is inside a load_test_file call.
InLoadTestFile(t) == local[t].op = "test"

\* The registered files that have a Test path.
TestFiles(fs) == {i \in 1..Len(fs) : fs[i].path.kind = "Test"}

\* This step is the return of thread t's load_test_file call.
LoadTestFileReturns(t) == InLoadTestFile(t) /\ pc'[t] = "idle"

\* C11: every load_test_file call succeeds (it returns, and returns a
\* file) and registers exactly one new file, whose uid differs from the uid
\* of every test file registered before it; test files are registered by
\* nothing else, so there are as many of them as completed calls.
C11_LoadTestFileSucceedsWithFreshUid ==
    /\ [][/\ \A t \in Threads :
               LoadTestFileReturns(t) =>
                   /\ Len(files') = Len(files) + 1
                   /\ SubSeq(files', 1, Len(files)) = files
                   /\ ret' = Ok(files'[Len(files')])
                   /\ files'[Len(files')].path.kind = "Test"
                   /\ \A i \in TestFiles(files) :
                          files[i].path.uid # files'[Len(files')].path.uid
          /\ TestFiles(files') # TestFiles(files) =>
                 \E t \in Threads : LoadTestFileReturns(t)]_vars
    /\ \A t \in Threads : InLoadTestFile(t) ~> (pc[t] = "idle")

\* The part of C11 about the calls that return: TLC finds it to hold.
LoadTestFileReturnsFreshUid ==
    [][/\ \A t \in Threads :
             LoadTestFileReturns(t) =>
                 /\ Len(files') = Len(files) + 1
                 /\ ret' = Ok(files'[Len(files')])
                 /\ \A i \in TestFiles(files) :
                        files[i].path.uid # files'[Len(files')].path.uid
       /\ TestFiles(files') # TestFiles(files) =>
              \E t \in Threads : LoadTestFileReturns(t)]_vars

\* C12: the line table of every SourceFile, the one built from the empty
\* text and the one built from "\n" included, is non-empty and its first
\* entry is span.start.
C12_LineTableStartsAtSpanStart ==
    source_file # None =>
        /\ Len(source_file.val.lines) > 0
        /\ source_file.val.lines[1] = source_file.val.span.start

\* The entries of a sequence.
Range(seq) == {seq[i] : i \in 1..Len(seq)}

\* The positions of a table are strictly increasing.
StrictlyIncreasing(positions) ==
    \A i \in 1..Len(positions) : \A j \in (i + 1)..Len(positions) :
        positions[i] < positions[j]

\* C13: the entries of the line table are strictly increasing and none of
\* them is span.end (a line start pushed after a newline that ends the
\* file is removed again).
C13_LinesIncreaseAndExcludeSpanEnd ==
    source_file # None =>
        /\ StrictlyIncreasing(source_file.val.lines)
        /\ source_file.val.span.end \notin Range(source_file.val.lines)

\* Witness of C13: a file has been built from a text that ends with a
\* newline and has an earlier line break, so the loop pushed span.end.
C13_Witness ==
    /\ source_file # None
    /\ Len(text) > 0
    /\ text[Len(text)] = LF
    /\ Len(source_file.val.lines) >= 2

\* The byte at index idx (0-based) of src ends a line: it is '\n', or it is
\* '\r' and the next byte is not '\n'.
LineBreakAt(src, idx) ==
    \/ src[idx + 1] = LF
    \/ /\ src[idx + 1] = CR
       /\ (idx + 2 > Len(src) \/ src[idx + 2] # LF)

\* C14: for every byte position p of the file with p + 1 # span.end, the
\* line table contains p + 1 exactly when the byte at p is '\n', or '\r'
\* not followed by '\n'; "a\r\nb\rc\n" has the line starts 0, 3 and 5
\* relative to span.start.
C14_LineStartsFollowLineBreaks ==
    source_file # None =>
        /\ \A idx \in 0..(Len(text) - 1) :
              origin + idx + 1 # source_file.val.span.end =>
                  (origin + idx + 1 \in Range(source_file.val.lines)
                      <=> LineBreakAt(text, idx))
        /\ text = MixedLineEndings =>
              source_file.val.lines = <<origin, origin + 3, origin + 5>>

\* Witness of C14: the file of "a\r\nb\rc\n" has been built.
C14_Witness ==
    /\ source_file # None
    /\ text = MixedLineEndings
    /\ Len(source_file.val.lines) = 3

\* The positions of the entries of a table of characters.
PositionsOf(table) == [i \in 1..Len(table) |-> table[i].pos]

\* C15: multi_byte_chars and non_narrow_chars are sorted by strictly
\* increasing position, and no entry of either is at a position that the
\* line table holds.
C15_CharTablesSortedAndOffLineStarts ==
    source_file # None =>
        LET f == source_file.val
        IN /\ StrictlyIncreasing(PositionsOf(f.multi_byte_chars))
           /\ StrictlyIncreasing(PositionsOf(f.non_narrow_chars))
           /\ Range(PositionsOf(f.multi_byte_chars)) \cap Range(f.lines) = {}
           /\ Range(PositionsOf(f.non_narrow_chars)) \cap Range(f.lines) = {}

\* C15 as amended: multi_byte_chars and non_narrow_chars are sorted by
\* strictly increasing position, and no entry of either is at the position
\* of a byte that ends a line ('\n', or '\r' not followed by '\n').
C15_CharTablesSortedAndOffLineBreaks ==
    source_file # None =>
        LET f == source_file.val
            breaks == {origin + idx : idx \in
                         {i \in 0..(Len(text) - 1) : LineBreakAt(text, i)}}
        IN /\ StrictlyIncreasing(PositionsOf(f.multi_byte_chars))
           /\ StrictlyIncreasing(PositionsOf(f.non_narrow_chars))
           /\ Range(PositionsOf(f.multi_byte_chars)) \cap breaks = {}
           /\ Range(PositionsOf(f.non_narrow_chars)) \cap breaks = {}

\* Witness of C15: a file has a line break and a character, recorded in
\* both tables, at the line start that follows it.
C15_Witness ==
    /\ source_file # None
    /\ Len(source_file.val.lines) >= 2
    /\ \E p \in Range(source_file.val.lines) :
          /\ p \in Range(PositionsOf(source_file.val.multi_byte_chars))
          /\ p \in Range(PositionsOf(source_file.val.non_narrow_chars))

\* The byte at index idx (0-based) of src is the first byte of a character
\* (it is not a UTF-8 continuation byte); so is the end of src.
IsCharStart(src, idx) ==
    idx = Len(src) \/ src[idx + 1] < 128 \/ src[idx + 1] >= 192

\* The positions of the characters of the file built from `text`.
CharPositions ==
    {origin + idx : idx \in {i \in 0..(Len(text) - 1) : IsCharStart(text, i)}}

\* The start of the line that holds position p: the last line start <= p.
LineStartOf(file, p) ==
    CHOOSE q \in Range(file.lines) :
        q <= p /\ \A q2 \in Range(file.lines) : q2 <= p => q2 <= q

\* The positions of the characters of the line of p that come before p.
LinePrefix(file, p) == {q \in CharPositions : LineStartOf(file, p) <= q /\ q < p}

\* C16: for every position p of a character of a file,
\* lookup_line_and_col(p) returns line = 1 + index of the line that holds
\* p, and col = 1 + the number of characters between the start of that
\* line and p.
C16_LineAndColAreOneBased ==
    source_file # None =>
        \A p \in CharPositions :
            LET f == source_file.val
                r == lookup_line_and_col(f, p)
            IN /\ r # Panic
               /\ r.line >= 1
               /\ f.lines[r.line] = LineStartOf(f, p)
               /\ r.col = 1 + Cardinality(LinePrefix(f, p))

\* What the code returns where C16 fails: the column counts from 0.  TLC
\* finds this to hold.
LineIsOneBasedAndColIsZeroBased ==
    source_file # None =>
        \A p \in CharPositions :
            LET f == source_file.val
                r == lookup_line_and_col(f, p)
            IN /\ r # Panic
               /\ r.line >= 1
               /\ f.lines[r.line] = LineStartOf(f, p)
               /\ r.col = Cardinality(LinePrefix(f, p))

\* C17: for every position p with span.start <= p < span.end, the line L
\* that lookup_line_and_col(p) reports has lines[L-1] <= p, and p is before
\* the next line start, or before span.end on the last line.  The call
\* reports a line for every position of a character; where it reports none
\* (the column overflows), p is inside a multi-byte character.
C17_ReportedLineHoldsPosition ==
    source_file # None =>
        \A p \in origin..(origin + Len(text) - 1) :
            LET f == source_file.val
                r == lookup_line_and_col(f, p)
            IN /\ p \in CharPositions => r # Panic
               /\ r # Panic =>
                     /\ r.line >= 1
                     /\ f.lines[r.line] <= p
                     /\ p < (IF r.line = Len(f.lines) THEN f.span.end
                             ELSE f.lines[r.line + 1])

\* Witness of C17: a file has two lines and a position on the second one,
\* behind its start, for which line 2 is reported.
C17_Witness ==
    /\ source_file # None
    /\ Len(source_file.val.lines) = 2
    /\ \E p \in origin..(origin + Len(text) - 1) :
          /\ p > source_file.val.lines[2]
          /\ lookup_line_and_col(source_file.val, p) # Panic
          /\ lookup_line_and_col(source_file.val, p).line = 2

\* The display width of the character whose first byte is `byte`: a tab 4,
\* a control or zero-width character 0, a wide character 2, any other 1.
DisplayWidth(byte) ==
    IF byte = TAB THEN 4
    ELSE IF byte < 32 \/ byte = 127 \/ byte = 204 THEN 0
    ELSE IF byte = 228 THEN 2
    ELSE 1

\* Sum of DisplayWidth over the characters at the positions of set.
RECURSIVE SumOfWidths(_)
SumOfWidths(set) ==
    IF set = {} THEN 0
    ELSE LET q == CHOOSE x \in set : TRUE
         IN DisplayWidth(text[q - origin + 1]) + SumOfWidths(set \ {q})

C19_SpanNewAbortsOnMixedDummy ==
    [][\A start \in SpanPositions, end \in SpanPositions :
          Span_new_call(start, end) =>
              /\ (span_ret' = Panic) <=> ((start = 0) # (end = 0))
              /\ (start = 0 /\ end = 0) => span_ret' = Ok(Span_dummy)
              /\ (start # 0 /\ end # 0) =>
                     span_ret' = Ok([start |-> start, end |-> end])]_vars

\* A Span value with start <= end.
WellFormed(span) == span.start <= span.end

\* C20: every Span value obtained through Span::new, the From
\* conversions, Span::dummy and across has start <= end.
C20_SpansAreWellFormed ==
    /\ WellFormed(span_self)
    /\ WellFormed(span_other)
    /\ IsOk(span_ret) => WellFormed(span_ret.val)

\* The part of C20 about across: the across of two spans with start <= end
\* has start <= end.  TLC finds it to hold.
AcrossOfWellFormedIsWellFormed ==
    (WellFormed(span_self) /\ WellFormed(span_other)) =>
        WellFormed(across(span_self, span_other))

\* The spans Span::new returns for the positions of SpanPositions.
NewSpans ==
    {[start |-> start, end |-> end] :
        start \in SpanPositions \ {0}, end \in SpanPositions \ {0}}

\* C21: for all non-dummy spans a, b and c, a.across(b) starts at the
\* smaller start and ends at the larger end (the smallest span that covers
\* both, the gap included), a.across(b) = b.across(a), and
\* a.across(b).across(c) = a.across(b.across(c)).
C21_AcrossIsSmallestCoverCommutativeAssociative ==
    LET a == span_self
        b == span_other
    IN (~Span_is_dummy(a) /\ ~Span_is_dummy(b)) =>
          /\ across(a, b).start <= a.start /\ across(a, b).start <= b.start
          /\ across(a, b).start \in {a.start, b.start}
          /\ across(a, b).end >= a.end /\ across(a, b).end >= b.end
          /\ across(a, b).end \in {a.end, b.end}
          /\ across(a, b) = across(b, a)
          /\ \A c \in NewSpans :
                across(across(a, b), c) = across(a, across(b, c))

\* Witness of C21: the caller holds two non-dummy spans with a gap between
\* them, the later one as self, so that across covers more than either.
C21_Witness ==
    /\ span_self \in NewSpans /\ span_other \in NewSpans
    /\ span_other.start <= span_other.end
    /\ span_other.end + 1 < span_self.start
    /\ span_self.start <= span_self.end
    /\ across(span_self, span_other) \notin {span_self, span_other}

\* C22: for a non-dummy span a, a.across(Span::dummy()) and
\* Span::dummy().across(a) are each a itself or the dummy span, never a span
\* with exactly one endpoint 0.
C22_AcrossWithDummyIsSelfOrDummy ==
    (span_self \in NewSpans /\ Span_is_dummy(span_other)) =>
        /\ across(span_self, span_other) \in {span_self, Span_dummy}
        /\ across(span_other, span_self) \in {span_self, Span_dummy}

\* C23: for every non-dummy span s and position p, s.contains(p) holds
\* exactly when s.start <= p < s.end; so s.contains(s.end) is false and an
\* empty span contains no position.
C23_ContainsIsHalfOpen ==
    span_self \in NewSpans =>
        /\ \A p \in SpanPositions :
              Span_contains(span_self, p)
                  <=> (span_self.start <= p /\ p < span_self.end)
        /\ ~Span_contains(span_self, span_self.end)

\* ------------------------------------------- Diagnostic, DiagnosticBuilder

MaxBuilders == 2
MaxSublabels == 1

Levels == {"Error", "Warn", "Note"}
Messages == {"", "m"}
\* The spans a caller hands to the setters of a builder.
LabelSpans == {[start |-> 1, end |-> 2]}
\* The two implementations of EmissionGuarantee: `()` and EmissionGuaranted.
Guarantees == {"()", "EmissionGuaranted"}

DiagnosticLabel(span, message) == [span |-> span, message |-> message]

\* Diagnostic::new(level, span, message): the span is the primary label's.
Diagnostic_new(level, span, message) ==
    [level |-> level,
     message |-> message,
     labels |-> [primary_label |-> DiagnosticLabel(span, ""),
                 sublabels |-> <<>>]]

\* DiagnosticBuilder::new; id tells the builders of a run apart.
DiagnosticBuilder_new(id, guarantee, diagnostic) ==
    [id |-> id,
     guarantee |-> guarantee,
     state |-> "Emittable",
     diagnostic |-> diagnostic]

set_primary_label(self, span, msg) ==
    [self EXCEPT !.diagnostic.labels.primary_label = DiagnosticLabel(span, msg)]

\* Mutant of set_primary_span: the assertion is left out.
set_primary_span_without_assert(self, span) ==
    [self EXCEPT !.diagnostic.labels.primary_label.span = span]

\* debug_assert!(primary_label.span.is_dummy())
set_primary_span(self, span) ==
    IF Span_is_dummy(self.diagnostic.labels.primary_label.span)
    THEN [self EXCEPT !.diagnostic.labels.primary_label.span = span]
    ELSE Panic

add_sublabel(self, span, msg) ==
    [self EXCEPT !.diagnostic.labels.sublabels =
                     Append(@, DiagnosticLabel(span, msg))]

add_subspan(self, span) ==
    [self EXCEPT !.diagnostic.labels.sublabels =
                     Append(@, DiagnosticLabel(span, ""))]

\* Mutant of Drop_drop: a destructor that never panics.
Drop_drop_without_bomb(self) == FALSE

\* impl Drop for DiagnosticBuilder: TRUE iff drop panics.
Drop_drop(self) == self.state = "Emittable"

\* Mutant of emit_diagnostic_with_guarantee: the `()` implementation hands an
\* already consumed builder's diagnostic to the engine again.
emit_diagnostic_with_guarantee_repeating(db, outcome) ==
    IF db.guarantee = "EmissionGuaranted"
    THEN IF db.state = "Emittable"
         THEN [db |-> IF outcome = "returned"
                      THEN [db EXCEPT !.state = "EmittedOrCancelled"]
                      ELSE db,
               emits |-> TRUE,
               body |-> outcome]
         ELSE [db |-> db, emits |-> FALSE, body |-> "panicked"]
    ELSE [db |-> [db EXCEPT !.state = "EmittedOrCancelled"],
          emits |-> TRUE,
          body |-> outcome]

\* G::emit_diagnostic_with_guarantee(db), where outcome says whether
\* engine.emit_diagnostic returns or panics: the builder afterwards, whether
\* engine.emit_diagnostic is called, and whether the function returns.
\* EmissionGuaranted writes the state after the engine returned, `()` before
\* it calls the engine.
emit_diagnostic_with_guarantee(db, outcome) ==
    IF db.guarantee = "EmissionGuaranted"
    THEN IF db.state = "Emittable"
         THEN [db |-> IF outcome = "returned"
                      THEN [db EXCEPT !.state = "EmittedOrCancelled"]
                      ELSE db,
               emits |-> TRUE,
               body |-> outcome]
         ELSE [db |-> db, emits |-> FALSE, body |-> "panicked"]
    ELSE IF db.state = "Emittable"
         THEN [db |-> [db EXCEPT !.state = "EmittedOrCancelled"],
               emits |-> TRUE,
               body |-> outcome]
         ELSE [db |-> db, emits |-> FALSE, body |-> "returned"]

\* DiagnosticEngine::emit_diagnostic, for the diagnostic of builder id:
\* inner.lock().unwrap() panics if the mutex is poisoned; otherwise the
\* emitter is handed the diagnostic, and a panic of the emitter (TtyEmitter: a
\* failed write) poisons the mutex.
emit_diagnostic(id, outcome) ==
    IF poisoned
    THEN /\ outcome = "panicked"
         /\ UNCHANGED <<emitter_log, poisoned>>
    ELSE /\ emitter_log' = Append(emitter_log, id)
         /\ poisoned' = (outcome = "panicked")

Outcomes == {"returned", "panicked"}

\* The record of a call on a builder: the builder's state before the call,
\* whether the body of the call returned or panicked, the state in which the
\* builder was dropped ("alive" if it was not), and whether that drop
\* panicked.
BuilderRet(op, self, body, dropped, drop_panicked) ==
    [op |-> op,
     id |-> self.id,
     from |-> self.state,
     body |-> body,
     dropped |-> dropped,
     drop_panicked |-> drop_panicked]

\* A call that returns the builder to the caller.
BuilderReturned(op, self, r) ==
    /\ builder' = r
    /\ builder_ret' = BuilderRet(op, self, "returned", "alive", FALSE)
    /\ UNCHANGED aborted

\* A call whose body is over (returned or panicked) and that drops the builder
\* db: at the end of a function that owns it, or while the panic unwinds. A
\* panic of drop during unwinding aborts the process.
BuilderDropped(op, self, db, body) ==
    /\ builder' = None
    /\ builder_ret' = BuilderRet(op, self, body, db.state, Drop_drop(db))
    /\ aborted' = (body = "panicked" /\ Drop_drop(db))

\* A setter: it returns the builder, or panics and drops it.
BuilderSet(op, r) ==
    /\ IF r = Panic
       THEN BuilderDropped(op, builder, builder, "panicked")
       ELSE BuilderReturned(op, builder, r)
    /\ UNCHANGED <<emitter_log, poisoned, created>>
    /\ UNCHANGED OutsideBuilder

\* DiagnosticEngine::create_diagnostic(level, msg), and create_err,
\* create_warn and create_note, which do the same with a fixed level.
create_diagnostic_call(level, msg) ==
    /\ ~aborted /\ builder = None /\ created < MaxBuilders
    /\ created' = created + 1
    /\ LET db == DiagnosticBuilder_new(
                     created + 1, "()", Diagnostic_new(level, Span_dummy, msg))
       IN  BuilderReturned("create_diagnostic", db, db)
    /\ UNCHANGED <<emitter_log, poisoned>>
    /\ UNCHANGED OutsideBuilder

\* DiagnosticBuilder::<G>::new(engine, diagnostic)
DiagnosticBuilder_new_call(guarantee, level, msg) ==
    /\ ~aborted /\ builder = None /\ created < MaxBuilders
    /\ created' = created + 1
    /\ LET db == DiagnosticBuilder_new(
                     created + 1, guarantee,
                     Diagnostic_new(level, Span_dummy, msg))
       IN  BuilderReturned("new", db, db)
    /\ UNCHANGED <<emitter_log, poisoned>>
    /\ UNCHANGED OutsideBuilder

set_primary_label_call(span, msg) ==
    /\ ~aborted /\ builder # None
    /\ BuilderSet("set_primary_label", set_primary_label(builder, span, msg))

set_primary_span_call(span) ==
    /\ ~aborted /\ builder # None
    /\ BuilderSet("set_primary_span", set_primary_span(builder, span))

add_sublabel_call(span, msg) ==
    /\ ~aborted /\ builder # None
    /\ Len(builder.diagnostic.labels.sublabels) < MaxSublabels
    /\ BuilderSet("add_sublabel", add_sublabel(builder, span, msg))

add_subspan_call(span) ==
    /\ ~aborted /\ builder # None
    /\ Len(builder.diagnostic.labels.sublabels) < MaxSublabels
    /\ BuilderSet("add_subspan", add_subspan(builder, span))

\* G::emit_diagnostic_with_guarantee(&mut builder), called by the owner of
\* the builder: the builder stays with the caller unless the call panics.
emit_diagnostic_with_guarantee_call(outcome) ==
    /\ ~aborted /\ builder # None
    /\ LET g == emit_diagnostic_with_guarantee(builder, outcome)
       IN  /\ IF g.emits
              THEN emit_diagnostic(builder.id, outcome)
              ELSE outcome = g.body /\ UNCHANGED <<emitter_log, poisoned>>
           /\ IF g.body = "returned"
              THEN BuilderReturned("emit_diagnostic_with_guarantee",
                                   builder, g.db)
              ELSE BuilderDropped("emit_diagnostic_with_guarantee",
                                  builder, g.db, "panicked")
    /\ UNCHANGED created
    /\ UNCHANGED OutsideBuilder

\* builder.emit(): G::emit_diagnostic_with_guarantee(&mut self), then self
\* is dropped.
emit_call(outcome) ==
    /\ ~aborted /\ builder # None
    /\ LET g == emit_diagnostic_with_guarantee(builder, outcome)
       IN  /\ IF g.emits
              THEN emit_diagnostic(builder.id, outcome)
              ELSE outcome = g.body /\ UNCHANGED <<emitter_log, poisoned>>
           /\ BuilderDropped("emit", builder, g.db, g.body)
    /\ UNCHANGED created
    /\ UNCHANGED OutsideBuilder

\* builder.cancel()
cancel_call ==
    /\ ~aborted /\ builder # None
    /\ BuilderDropped("cancel", builder,
                      [builder EXCEPT !.state = "EmittedOrCancelled"],
                      "returned")
    /\ UNCHANGED <<emitter_log, poisoned, created>>
    /\ UNCHANGED OutsideBuilder

\* The builder goes out of scope.
drop_call ==
    /\ ~aborted /\ builder # None
    /\ BuilderDropped("drop", builder, builder, "returned")
    /\ UNCHANGED <<emitter_log, poisoned, created>>
    /\ UNCHANGED OutsideBuilder

BuilderNext ==
    \/ \E level \in Levels, msg \in Messages :
          create_diagnostic_call(level, msg)
    \/ \E guarantee \in Guarantees, level \in Levels, msg \in Messages :
          DiagnosticBuilder_new_call(guarantee, level, msg)
    \/ \E span \in LabelSpans, msg \in Messages :
          set_primary_label_call(span, msg)
    \/ \E span \in LabelSpans : set_primary_span_call(span)
    \/ \E span \in LabelSpans, msg \in Messages : add_sublabel_call(span, msg)
    \/ \E span \in LabelSpans : add_subspan_call(span)
    \/ \E outcome \in Outcomes : emit_diagnostic_with_guarantee_call(outcome)
    \/ \E outcome \in Outcomes : emit_call(outcome)
    \/ cancel_call
    \/ drop_call

BuilderSpec == Init /\ [][BuilderNext]_vars

\* ------------------------------------------------------- claims C24 .. C26

\* C24: a DiagnosticBuilder is a destructor bomb: whenever a builder is
\* dropped, the drop panics exactly if the builder is still Emittable; so a
\* builder that goes out of scope after setter calls only panics, and the
\* drop inside cancel(), the drop at the end of an emit() whose emission
\* returned, and the drop of a builder that was emitted earlier do not.
C24_DropIsADestructorBomb ==
    (builder_ret # NoRet /\ builder_ret.dropped # "alive") =>
        /\ builder_ret.drop_panicked <=> (builder_ret.dropped = "Emittable")
        /\ (builder_ret.op = "drop" /\ builder_ret.from = "Emittable")
               => builder_ret.drop_panicked
        /\ (builder_ret.op = "drop"
                /\ builder_ret.from = "EmittedOrCancelled")
               => ~builder_ret.drop_panicked
        /\ builder_ret.op = "cancel" => ~builder_ret.drop_panicked
        /\ (builder_ret.op = "emit" /\ builder_ret.body = "returned")
               => ~builder_ret.drop_panicked

\* Witness of C24: the first builder was emitted, and the second one went out
\* of scope while Emittable, so its drop panicked.
C24_Witness ==
    /\ builder_ret # NoRet
    /\ builder_ret.op = "drop"
    /\ builder_ret.id = 2
    /\ builder_ret.drop_panicked
    /\ \E i \in DOMAIN emitter_log : emitter_log[i] = 1

\* The number of times id occurs in log: how often the emitter was handed the
\* diagnostic of builder id.
TimesIn(log, id) == Cardinality({i \in DOMAIN log : log[i] = id})

TimesReceived(id) == TimesIn(emitter_log, id)

C26_EmitOfConsumedBuilderPanics ==
    (/\ builder_ret # NoRet
     /\ builder_ret.op \in {"emit", "emit_diagnostic_with_guarantee"}
     /\ builder_ret.from = "EmittedOrCancelled")
        => builder_ret.body = "panicked"

\* ------------------------------------------------------- Symbol, Interner

MaxInterns == 3

U16 == 65536

\* n as u32: the low 32 bits of n, taken as two halves of 16 bits.
as_u32(n) == ((n \div U16) % U16) * U16 + (n % U16)

\* The strings callers intern, as sequences of bytes.
InternStrings == {<<>>, <<97>>, <<98>>}

\* names is a HashMap<&str, Symbol>: a function from the interned strings.
HashMap_get(map, key) == IF key \in DOMAIN map THEN Some(map[key]) ELSE None

HashMap_insert(map, key, value) ==
    [k \in DOMAIN map \cup {key} |-> IF k = key THEN value ELSE map[k]]

\* Mutant of Interner_intern: the names table is not consulted.
Interner_intern_without_lookup(self, string) ==
    LET symbol == [id |-> as_u32(Len(self.symbols))]
    IN  [interner |-> [storage |-> Append(self.storage, string),
                       symbols |-> Append(self.symbols, string),
                       names |-> HashMap_insert(self.names, string, symbol)],
         symbol |-> symbol]

\* Mutant of Interner_intern: ids start at 1.
Interner_intern_one_based(self, string) ==
    IF HashMap_get(self.names, string) # None
    THEN [interner |-> self, symbol |-> self.names[string]]
    ELSE LET symbol == [id |-> as_u32(Len(self.symbols) + 1)]
         IN  [interner |->
                  [storage |-> Append(self.storage, string),
                   symbols |-> Append(self.symbols, string),
                   names |-> HashMap_insert(self.names, string, symbol)],
              symbol |-> symbol]

\* Interner::intern: the interner afterwards and the symbol returned.
\* storage.alloc_str copies the string into the bump arena, which never
\* moves what it holds; symbols and names refer to that copy.
Interner_intern(self, string) ==
    IF HashMap_get(self.names, string) # None
    THEN [interner |-> self, symbol |-> self.names[string]]
    ELSE LET symbol == [id |-> as_u32(Len(self.symbols))]
         IN  [interner |->
                  [storage |-> Append(self.storage, string),
                   symbols |-> Append(self.symbols, string),
                   names |-> HashMap_insert(self.names, string, symbol)],
              symbol |-> symbol]

\* Interner::get: &self.symbols[symbol.id as usize]
Interner_get(self, symbol) ==
    IF symbol.id < Len(self.symbols)
    THEN Ok(self.symbols[symbol.id + 1])
    ELSE Panic

\* The symbols Symbol::intern has returned so far.
IssuedSymbols == {intern_log[i].symbol : i \in DOMAIN intern_log}

\* Symbol::intern(string) called by thread t: the whole call runs under the
\* lock of GLOBAL_INTERNER.
Symbol_intern_call(t, string) ==
    /\ Len(intern_log) < MaxInterns
    /\ LET r == Interner_intern(interner, string)
       IN  /\ interner' = r.interner
           /\ symbol_ret' = r.symbol
           /\ intern_log' =
                  Append(intern_log,
                         [thread |-> t, string |-> string, symbol |-> r.symbol])
    /\ UNCHANGED OutsideInterner

\* symbol.as_str() for a symbol some intern call has returned.
Symbol_as_str_call(symbol) ==
    /\ symbol \in IssuedSymbols
    /\ symbol_ret' = Interner_get(interner, symbol)
    /\ UNCHANGED <<interner, intern_log>>
    /\ UNCHANGED OutsideInterner

InternerNext ==
    \/ \E t \in Threads, string \in InternStrings : Symbol_intern_call(t, string)
    \/ \E symbol \in IssuedSymbols : Symbol_as_str_call(symbol)

InternerSpec == Init /\ [][InternerNext]_vars

\* ------------------------------------------------------- claims C27 .. C28

\* C27: interning is idempotent: all Symbol::intern calls of one string, in
\* whatever order and from whatever thread, return the same Symbol, and an
\* intern of a string that was interned before leaves symbols, names and the
\* arena as they are.
C27_InternIsIdempotent ==
    [][/\ \A i, j \in DOMAIN intern_log' :
             intern_log'[i].string = intern_log'[j].string
                 => intern_log'[i].symbol = intern_log'[j].symbol
       /\ (/\ Len(intern_log') = Len(intern_log) + 1
           /\ \E i \in DOMAIN intern_log :
                  intern_log[i].string = intern_log'[Len(intern_log')].string)
              => interner' = interner]_vars

\* Witness of C27: a string was interned, then another, then the first one
\* again by the other thread.
C27_Witness ==
    /\ Len(intern_log) = 3
    /\ intern_log[1].string = intern_log[3].string
    /\ intern_log[1].string # intern_log[2].string
    /\ intern_log[1].thread # intern_log[3].thread
    /\ Len(interner.symbols) = 2

\* The strings of the log in order of first interning.
RECURSIVE FirstInterned(_)
FirstInterned(log) ==
    IF log = <<>> THEN <<>>
    ELSE LET before == FirstInterned(SubSeq(log, 1, Len(log) - 1))
             string == log[Len(log)].string
         IN  IF \E i \in DOMAIN before : before[i] = string
             THEN before
             ELSE Append(before, string)

MaxAllocs == 5
MaxSlice == 3

INITIAL_SIZE == 1024
MIN_CAPACITY == 1

\* mem::size_of::<T>() for the element types T of the arenas: arenas whose
\* first chunk has room for two elements and for one.
ElementSizes == {512, 1024, 2048}

cmp_max(a, b) == IF a >= b THEN a ELSE b

\* A Vec<T>: its elements, its capacity, and how often its buffer has been
\* reallocated (which moves every element it holds).
Vec_with_capacity(n) == [items |-> <<>>, cap |-> n, moves |-> 0]

\* Vec::extend and Vec::push: within the capacity the buffer stays where it
\* is; past it the Vec grows (amortised doubling) into a new buffer.
Vec_extend(v, elems) ==
    IF Len(v.items) + Len(elems) <= v.cap
    THEN [v EXCEPT !.items = @ \o elems]
    ELSE [items |-> v.items \o elems,
          cap |-> cmp_max(2 * v.cap, Len(v.items) + Len(elems)),
          moves |-> v.moves + 1]

Vec_push(v, elem) == Vec_extend(v, <<elem>>)

RECURSIVE power_of_two_from(_, _)
power_of_two_from(p, n) == IF p >= n THEN p ELSE power_of_two_from(2 * p, n)

\* usize::checked_next_power_of_two: the smallest power of two >= n.
checked_next_power_of_two(n) == power_of_two_from(1, n)

\* TypedArena::with_capacity
TypedArena_with_capacity(n) ==
    [current |-> Vec_with_capacity(cmp_max(MIN_CAPACITY, n)), rest |-> <<>>]

\* TypedArena::<T>::new, for size = mem::size_of::<T>()
TypedArena_new(size) ==
    TypedArena_with_capacity(INITIAL_SIZE \div cmp_max(1, size))

\* ChunkList::reserve
reserve(self, additional) ==
    LET double_cap == self.current.cap * 2
        required_cap == checked_next_power_of_two(additional)
        new_capacity == cmp_max(double_cap, required_cap)
    IN  [current |-> Vec_with_capacity(new_capacity),
         rest |-> Append(self.rest, self.current)]

\* The while loop of alloc_slice: iter holds the elements still to come and i
\* counts the elements pushed. The result is the chunk list, the index in
\* current where the slice starts, and the elements drained from the previous
\* chunk.
RECURSIVE alloc_slice_loop(_, _, _, _)
alloc_slice_loop(list, iter, i, next_item_index) ==
    IF iter = <<>>
    THEN [chunks |-> list, next_item_index |-> next_item_index, drained |-> <<>>]
    ELSE IF Len(list.current.items) = list.current.cap
    THEN LET reserved == reserve(list, i + 1)
             last == Len(reserved.rest)
             previous_chunk == reserved.rest[last]
             previous_chunk_len == Len(previous_chunk.items)
             drained == SubSeq(previous_chunk.items,
                               previous_chunk_len - i + 1, previous_chunk_len)
             current == Vec_extend(
                            Vec_push(Vec_extend(reserved.current, drained),
                                     Head(iter)),
                            Tail(iter))
         IN  [chunks |->
                  [current |-> current,
                   rest |-> [reserved.rest EXCEPT ![last].items =
                                SubSeq(@, 1, previous_chunk_len - i)]],
              next_item_index |-> 0,
              drained |-> drained]
    ELSE alloc_slice_loop(
             [list EXCEPT !.current = Vec_push(@, Head(iter))],
             Tail(iter), i + 1, next_item_index)

\* Mutant of alloc_slice: the slice taken from a newly reserved chunk starts
\* at the length the previous chunk had.
alloc_slice_from_old_length(self, iter, iter_min_len) ==
    IF iter_min_len > self.current.cap - Len(self.current.items)
    THEN LET reserved == reserve(self, iter_min_len)
         IN  [chunks |-> [reserved EXCEPT !.current = Vec_extend(@, iter)],
              next_item_index |-> Len(self.current.items),
              drained |-> <<>>]
    ELSE alloc_slice_loop(self, iter, 0, Len(self.current.items))

\* TypedArena::alloc_slice for an iterator that yields the elements of iter
\* and whose size_hint().0 is iter_min_len.
alloc_slice(self, iter, iter_min_len) ==
    IF iter_min_len > self.current.cap - Len(self.current.items)
    THEN LET reserved == reserve(self, iter_min_len)
         IN  [chunks |-> [reserved EXCEPT !.current = Vec_extend(@, iter)],
              next_item_index |-> 0,
              drained |-> <<>>]
    ELSE alloc_slice_loop(self, iter, 0, Len(self.current.items))

\* Mutant of alloc: the fast path pushes without the capacity test.
alloc_without_capacity_test(self, value) ==
    [chunks |-> [self EXCEPT !.current = Vec_push(@, value)],
     next_item_index |-> Len(self.current.items),
     drained |-> <<>>]

\* TypedArena::alloc: alloc_fast_path, or alloc_slow_path when the current
\* chunk is full.
alloc(self, value) ==
    IF Len(self.current.items) < self.current.cap
    THEN [chunks |-> [self EXCEPT !.current = Vec_push(@, value)],
          next_item_index |-> Len(self.current.items),
          drained |-> <<>>]
    ELSE alloc_slice(self, <<value>>, 1)

\* The chunks of a chunk list in the order of their creation: rest, then
\* current.
Chunk(list, k) == IF k <= Len(list.rest) THEN list.rest[k] ELSE list.current

\* A reference to the element at index i of chunk k.
Ref(list, k, i) ==
    [elem |-> Chunk(list, k).items[i],
     chunk |-> k,
     index |-> i,
     cap |-> Chunk(list, k).cap,
     moves |-> Chunk(list, k).moves]

\* A call for n values returns the part of current from next_item_index on.
ArenaReturn(op, n, iter_min_len, r) ==
    LET k == Len(r.chunks.rest) + 1
        slice == (r.next_item_index + 1)..Len(r.chunks.current.items)
    IN  /\ chunks' = r.chunks
        /\ handed' = handed \cup {Ref(r.chunks, k, i) : i \in slice}
        /\ arena_ret' = [op |-> op,
                         n |-> n,
                         iter_min_len |-> iter_min_len,
                         chunk |-> k,
                         slice |-> slice,
                         drained |-> Range(r.drained)]

\* TypedArena::<T>::new()
TypedArena_new_call(size) ==
    /\ chunks = None
    /\ chunks' = TypedArena_new(size)
    /\ arena_ret' = [op |-> "new", n |-> 0, iter_min_len |-> 0,
                     chunk |-> 1, slice |-> {}, drained |-> {}]
    /\ UNCHANGED <<allocated, handed>>
    /\ UNCHANGED OutsideArena

\* arena.alloc(value); the values are numbered in the order they are given.
alloc_call ==
    /\ chunks # None
    /\ allocated < MaxAllocs
    /\ allocated' = allocated + 1
    /\ ArenaReturn("alloc", 1, 1, alloc(chunks, allocated + 1))
    /\ UNCHANGED OutsideArena

\* arena.alloc_slice(iterable) for an iterator of n values that reports
\* iter_min_len as the lower bound of its size, whether that is right, too
\* small or too large.
alloc_slice_call(n, iter_min_len) ==
    /\ chunks # None
    /\ allocated + n <= MaxAllocs
    /\ allocated' = allocated + n
    /\ ArenaReturn("alloc_slice", n, iter_min_len,
                   alloc_slice(chunks, [i \in 1..n |-> allocated + i],
                               iter_min_len))
    /\ UNCHANGED OutsideArena

ArenaNext ==
    \/ \E size \in ElementSizes : TypedArena_new_call(size)
    \/ alloc_call
    \/ \E n \in 0..MaxSlice : \E iter_min_len \in 0..(MaxSlice + 1) :
          alloc_slice_call(n, iter_min_len)

ArenaSpec == Init /\ [][ArenaNext]_vars

\* ----------------------------------------------------------- claim C29

\* C29: TypedArena gives stable addresses: in every step, each element the
\* arena has returned is afterwards in the same chunk at the same index, in
\* a buffer that was neither reallocated nor changed in capacity; the
\* elements a call moves from one chunk to another are elements that call
\* itself has written, none that was returned before.
C29_ReturnedElementsStayInPlace ==
    [][chunks # None =>
          /\ \A h \in handed :
                /\ h.chunk <= Len(chunks'.rest) + 1
                /\ h.index <= Len(Chunk(chunks', h.chunk).items)
                /\ Ref(chunks', h.chunk, h.index) = h
          /\ \A elem \in arena_ret'.drained :
                /\ elem > allocated
                /\ \A h \in handed : h.elem # elem]_vars

\* Witness of C29: the last call ran out of room in the middle of its
\* iterator and moved what it had written to a new chunk, while the previous
\* chunk still holds elements returned by earlier calls.
C29_Witness ==
    /\ chunks # None
    /\ arena_ret.drained # {}
    /\ chunks.rest # <<>>
    /\ chunks.rest[Len(chunks.rest)].items # <<>>
    /\ \E h \in handed : h.chunk = Len(chunks.rest)

\* ----------------------------------------------------------- claim C30

\* SourceFile::lookup_line_bounds: the Range<Pos> of the line, or a panic of
\* the assertion on line_index.
lookup_line_bounds(file, line_index) ==
    IF ~(line_index < Len(file.lines))
    THEN Panic
    ELSE IF is_empty(file)
    THEN [start |-> file.span.start, end |-> file.span.end]
    ELSE IF line_index = Len(file.lines) - 1
    THEN [start |-> file.lines[line_index + 1], end |-> file.span.end]
    ELSE [start |-> file.lines[line_index + 1],
          end |-> file.lines[line_index + 2]]

\* C30: lookup_line_bounds returns [lines[i], lines[i+1]) for a line i that
\* is not the last, [lines[last], span.end) for the last line, and for an
\* empty file [span.start, span.end) for line index 0 instead of failing.
C30_LineBoundsCoverEveryLine ==
    source_file # None =>
        LET file == source_file.val
            last == Len(file.lines) - 1
        IN  /\ \A i \in 0..(last - 1) :
                  lookup_line_bounds(file, i)
                      = [start |-> file.lines[i + 1], end |-> file.lines[i + 2]]
            /\ last >= 0 =>
                  lookup_line_bounds(file, last)
                      = [start |-> file.lines[last + 1], end |-> file.span.end]
            /\ is_empty(file) =>
                  lookup_line_bounds(file, 0)
                      = [start |-> file.span.start, end |-> file.span.end]

\* ------------------------------------------------------- claims C31 .. C32

\* SourceLine::line_number
line_number(source_line) == source_line.line + 1

\* The non-empty spans that lie inside file: start and end - 1 are both
\* positions of the file.
SpansInside(file) ==
    {span \in {[start |-> a, end |-> b] :
                  a \in file.span.start..(file.span.end - 1),
                  b \in (file.span.start + 1)..file.span.end} :
        span.start < span.end}

\* The zero-based index of the line of file that holds pos: the last line
\* that starts at or before pos.
LineHolding(file, pos) ==
    CHOOSE k \in 0..(Len(file.lines) - 1) :
        /\ file.lines[k + 1] <= pos
        /\ k + 1 = Len(file.lines) \/ pos < file.lines[k + 2]

\* C31: for every non-empty span inside a single registered file,
\* lookup_lines_at_span returns SourceLines that all reference that file,
\* with consecutive zero-based line indices from the line holding span.start
\* to the line holding span.end - 1, and each line_number is the index + 1.
C31_LinesAtSpanAreConsecutive ==
    \A n \in 1..Len(files) : \A span \in SpansInside(files[n]) :
        \A r \in lookup_lines_at_span(span) :
            /\ IsOk(r)
            /\ Len(r.val) = LineHolding(files[n], span.end - 1)
                              - LineHolding(files[n], span.start) + 1
            /\ \A k \in 1..Len(r.val) :
                  /\ r.val[k].file = files[n]
                  /\ r.val[k].line
                        = LineHolding(files[n], span.start) + k - 1
                  /\ line_number(r.val[k]) = r.val[k].line + 1

\* C32: for every span for which lookup_file_at_span succeeds with file f,
\* the offsets span.start - f.start and span.end - f.start are in order and
\* within f.src, and lookup_source returns exactly the bytes of f.src between
\* them; in particular lookup_source(f.span) is the whole source of f.
C32_SourceIsTheSliceOfTheFile ==
    \A span \in Spans : \A r \in lookup_file_at_span(span) :
        IsOk(r) =>
            LET f == r.val
                start == span.start - file_start_pos(f)
                end == span.end - file_start_pos(f)
            IN  /\ 0 <= start /\ start <= end /\ end <= Len(f.src)
                /\ Ok(SubSeq(f.src, start + 1, end)) \in lookup_source(span)
                /\ span = f.span => Ok(f.src) \in lookup_source(span)

\* ----------------------------------------------------------- claim C33

\* C33: set_primary_span asserts that the primary span is the dummy span:
\* called while it is, it returns the builder with the new primary span and
\* with the primary message, the sublabels, the level, the message and the
\* builder state unchanged; called after the primary span has been set to a
\* non-dummy span it panics and the builder is gone.
C33_SetPrimarySpanAssertsDummy ==
    [][\A span \in LabelSpans :
          set_primary_span_call(span) =>
              IF Span_is_dummy(builder.diagnostic.labels.primary_label.span)
              THEN /\ builder_ret'.body = "returned"
                   /\ builder' # None
                   /\ builder'.diagnostic.labels.primary_label.span = span
                   /\ builder'.diagnostic.labels.primary_label.message
                         = builder.diagnostic.labels.primary_label.message
                   /\ builder'.diagnostic.labels.sublabels
                         = builder.diagnostic.labels.sublabels
                   /\ builder'.diagnostic.level = builder.diagnostic.level
                   /\ builder'.diagnostic.message = builder.diagnostic.message
                   /\ builder'.state = builder.state
              ELSE /\ builder_ret'.body = "panicked"
                   /\ builder' = None]_vars

\* Witness of C33: set_primary_span was called on a builder whose primary
\* span was already set, and panicked.
C33_Witness ==
    /\ builder_ret # NoRet
    /\ builder_ret.op = "set_primary_span"
    /\ builder_ret.body = "panicked"
    /\ builder = None

\* ----------------------------------------------------------- claim C34

\* The places (chunk, index) of a chunk list that hold value elem.
PlacesOf(list, elem) ==
    {<<k, i>> \in (1..(Len(list.rest) + 1)) \X (1..(MaxAllocs + 1)) :
        /\ i <= Len(Chunk(list, k).items)
        /\ Chunk(list, k).items[i] = elem}

\* C34: whatever the size hint of the iterator, alloc_slice returns one run
\* of consecutive indices of a single chunk (the current one) that holds
\* exactly the iterator's items in iteration order; the items it wrote
\* before the chunk overflowed are in the new chunk and no longer in the
\* previous one; and every value ever given to the arena is in exactly one
\* place of its chunks.
C34_SliceHoldsTheItemsInOrder ==
    [][(chunks # None /\ arena_ret'.op = "alloc_slice") =>
          LET n == arena_ret'.n
              items == chunks'.current.items
          IN  /\ n = allocated' - allocated
              /\ arena_ret'.chunk = Len(chunks'.rest) + 1
              /\ n <= Len(items)
              /\ arena_ret'.slice = (Len(items) - n + 1)..Len(items)
              /\ \A j \in 1..n : items[Len(items) - n + j] = allocated + j
              /\ \A elem \in arena_ret'.drained :
                    \E i \in arena_ret'.slice : items[i] = elem
              /\ \A elem \in 1..allocated' :
                    Cardinality(PlacesOf(chunks', elem)) = 1]_vars

\* Witness of C34: an iterator that under-reported its length overflowed the
\* current chunk in the middle, and what it had written was moved.
C34_Witness ==
    /\ chunks # None
    /\ arena_ret.op = "alloc_slice"
    /\ arena_ret.iter_min_len < arena_ret.n
    /\ arena_ret.drained # {}
    /\ Len(chunks.current.items) = arena_ret.n

\* -------------------------------------------------------------- TtyEmitter

\* The number of files a caller loads into the SourceMap before it emits.
MaxFiles == 2

\* The texts of those files: "", "\ta\n" and "a\nb\nc".
EmitterTexts == {<<>>, <<9, 97, 10>>, <<97, 10, 98, 10, 99>>}

\* The SourceMap after load_test_file(src, None) has been called, one call
\* after the other, for each text of srcs: every call takes the next
\* virtual file number and the next Len(src) + 1 positions, and pushes its
\* file.
RECURSIVE load_test_files(_)
load_test_files(srcs) ==
    IF srcs = <<>>
    THEN [used_pos_space |-> 1, used_virtual_file_number |-> 0,
          files |-> <<>>]
    ELSE LET before == load_test_files(SubSeq(srcs, 1, Len(srcs) - 1))
             src == srcs[Len(srcs)]
             file_path == test_file_path(NoName,
                                         before.used_virtual_file_number)
             file == SourceFile_new(file_path, src, before.used_pos_space)
         IN [used_pos_space |-> before.used_pos_space + Len(src) + 1,
             used_virtual_file_number |->
                 before.used_virtual_file_number + 1,
             files |-> Append(before.files, file)]

\* The sequences of at most MaxFiles texts.
RECURSIVE TextSeqs(_)
TextSeqs(n) ==
    IF n = 0 THEN {<<>>}
    ELSE TextSeqs(n - 1) \cup
         {Append(srcs, src) : srcs \in TextSeqs(n - 1), src \in EmitterTexts}

\* Diagnostic::span
Diagnostic_span(diag) == diag.labels.primary_label.span

\* SourceFile::lookup_line_span: the span of line line_index.
lookup_line_span(file, line_index) ==
    IF is_empty(file) THEN [start |-> file.span.start, end |-> file.span.end]
    ELSE IF line_index = Len(file.lines) - 1
    THEN [start |-> file.lines[line_index + 1], end |-> file.span.end]
    ELSE [start |-> file.lines[line_index + 1],
          end |-> file.lines[line_index + 2]]

\* SourceFile::lookup_line_source: the bytes of src inside the line's span.
lookup_line_source(file, line_index) ==
    LET span == lookup_line_span(file, line_index)
    IN SubSeq(file.src, span.start - file_start_pos(file) + 1,
              span.end - file_start_pos(file))

\* SourceLine::source
SourceLine_source(source_line) ==
    lookup_line_source(source_line.file, source_line.line)

\* SourceLine::span
SourceLine_span(source_line) ==
    lookup_line_span(source_line.file, source_line.line)

\* PosInfo::name: the name of the file, here the SourcePath it is made from.
PosInfo_name(pos_info) == pos_info.file.path

\* n.to_string().len(): the number of decimal digits of n.
RECURSIVE to_string_len(_)
to_string_len(n) == IF n < 10 THEN 1 ELSE 1 + to_string_len(n \div 10)

\* The match on diag.level: the name and the mark character of a level.
level_name(level) ==
    CASE level = "Error" -> "error"
      [] level = "Warn" -> "warning"
      [] level = "Note" -> "note"

level_mark_char(level) ==
    CASE level = "Error" -> "^"
      [] level = "Warn" -> "^"
      [] level = "Note" -> "-"

\* What try_emit_diagnostic writes, one record per piece; `newline` says
\* that the piece ends its output line.
\* "<level>: <message>\n"
TitleRow(diag) ==
    [kind |-> "title", level_name |-> level_name(diag.level),
     message |-> diag.message, newline |-> TRUE]

\* "<indent> .- <file_name>:<line>:<col>\n"
HeaderRow(indent, start_pos_info) ==
    [kind |-> "header", indent |-> indent,
     file_name |-> PosInfo_name(start_pos_info),
     line |-> start_pos_info.line, col |-> start_pos_info.col,
     newline |-> TRUE]

\* "<indent> |\n" before the lines, "<indent> | " before a row of marks.
GutterRow(indent, newline) ==
    [kind |-> "gutter", indent |-> indent, newline |-> newline]

\* "<number> | ", the number right-aligned in indent columns.
NumberRow(indent, number) ==
    [kind |-> "number", indent |-> indent, number |-> number,
     newline |-> FALSE]

\* The source of a line, written as it is: the output line ends here only
\* when the source ends with a line feed.
SourceRow(line_source) ==
    [kind |-> "source", source |-> line_source,
     newline |-> (line_source # <<>>
                  /\ line_source[Len(line_source)] = LF)]

\* marks_line: mark_start_col blanks, the marks, a blank and the message.
MarksRow(mark_start_col, mark_end_col, mark_char, message) ==
    [kind |-> "marks", mark_start_col |-> mark_start_col,
     mark_end_col |-> mark_end_col, mark_char |-> mark_char,
     message |-> message, newline |-> TRUE]

\* "<indent> '-\n"
ClosingRow(indent) ==
    [kind |-> "closing", indent |-> indent, newline |-> TRUE]

\* The outcome of the call: what was written until it returned or panicked.
Emitted(rows, result) == [rows |-> rows, result |-> result]

\* try_emit_diagnostic, the loop over the lines from index idx on and the
\* closing row: the set of outcomes.  On a line that is not the last the
\* unwrap of lookup_pos_info(span.end() - 1) can fail, and on every line
\* mark_end_col - mark_start_col is computed in usize.
RECURSIVE emit_lines(_, _, _, _, _, _)
emit_lines(lines, idx, indent, start_pos_info, end_pos_info, diag) ==
    IF idx = Len(lines) THEN {Emitted(<<ClosingRow(indent)>>, "returned")}
    ELSE
      LET line == lines[idx + 1]
          written == <<NumberRow(indent, line_number(line)),
                       SourceRow(SourceLine_source(line)),
                       GutterRow(indent, FALSE)>>
          span == SourceLine_span(line)
          mark_start_col == IF idx = 0 THEN start_pos_info.col_display ELSE 0
          mark_end_cols ==
              IF idx = Len(lines) - 1 THEN {Ok(end_pos_info.col_display)}
              ELSE {IF IsOk(r) THEN Ok(r.val.col_display) ELSE Panic :
                      r \in lookup_pos_info(span.end - 1)}
      IN UNION
          {IF ~IsOk(mark_end_col) THEN {Emitted(written, "panicked")}
           ELSE IF mark_end_col.val < mark_start_col
           THEN {Emitted(written, "panicked")}
           ELSE {Emitted(written
                           \o <<MarksRow(mark_start_col, mark_end_col.val,
                                         level_mark_char(diag.level),
                                         diag.labels.primary_label.message)>>
                           \o rest.rows,
                         rest.result) :
                   rest \in emit_lines(lines, idx + 1, indent,
                                       start_pos_info, end_pos_info, diag)} :
           mark_end_col \in mark_end_cols}

\* try_emit_diagnostic once lookup_lines_at_span and the two lookup_pos_info
\* calls have produced lines, start and end (each a result).
emit_snippet(lines, start, end, diag) ==
    IF lines = Panic THEN {Emitted(<<TitleRow(diag)>>, "panicked")}
    ELSE IF ~IsOk(lines) THEN {Emitted(<<TitleRow(diag)>>, "returned")}
    ELSE IF lines.val = <<>> THEN {Emitted(<<TitleRow(diag)>>, "returned")}
    ELSE IF ~IsOk(start) \/ ~IsOk(end)
    THEN {Emitted(<<TitleRow(diag)>>, "panicked")}
    ELSE LET indent ==
                 to_string_len(line_number(lines.val[Len(lines.val)]))
         IN {Emitted(<<TitleRow(diag), HeaderRow(indent, start.val),
                       GutterRow(indent, TRUE)>> \o rest.rows,
                     rest.result) :
               rest \in emit_lines(lines.val, 0, indent, start.val, end.val,
                                   diag)}

\* TtyEmitter::try_emit_diagnostic on a writer that takes every write: the
\* set of outcomes.
try_emit_diagnostic(source_map, diag) ==
    IF ~source_map THEN {Emitted(<<TitleRow(diag)>>, "returned")}
    ELSE UNION
          {emit_snippet(lines, start, end, diag) :
             lines \in lookup_lines_at_span(Diagnostic_span(diag)),
             start \in lookup_pos_info(Diagnostic_span(diag).start),
             end \in lookup_pos_info(Diagnostic_span(diag).end)}

\* A caller has loaded at most MaxFiles test files, one after the other,
\* holds a TtyEmitter with or without the SourceMap, and a diagnostic whose
\* primary label is "m" at some span.
EmitterInit ==
    /\ \E srcs \in TextSeqs(MaxFiles) :
          LET map == load_test_files(srcs)
          IN /\ used_pos_space = map.used_pos_space
             /\ used_virtual_file_number = map.used_virtual_file_number
             /\ files = map.files
             /\ files_map = [k \in {map.files[i].path :
                                       i \in 1..Len(map.files)} |->
                               map.files[k.uid + 1]]
    /\ pc = [t \in Threads |-> "idle"]
    /\ local = [t \in Threads |-> IdleLocal]
    /\ ret = NoRet
    /\ returned = {}
    /\ loads = 0
    /\ NoSourceFile
    /\ NoSpan
    /\ NoBuilder
    /\ NoSymbol
    /\ NoArena
    /\ NoPath
    /\ tty_source_map \in BOOLEAN
    /\ \E level \in Levels : \E span \in Spans :
          tty_diagnostic =
              [Diagnostic_new(level, span, "d")
                  EXCEPT !.labels.primary_label.message = "m"]
    /\ tty_out = <<>>
    /\ tty_ret = NoRet

\* <TtyEmitter as Emitter>::emit_diagnostic(diag): the rows are written and
\* the call returns or panics.
TtyEmitter_emit_diagnostic_call ==
    /\ tty_ret = NoRet
    /\ \E emitted \in try_emit_diagnostic(tty_source_map, tty_diagnostic) :
          /\ tty_out' = emitted.rows
          /\ tty_ret' = [result |-> emitted.result]
    /\ UNCHANGED <<tty_source_map, tty_diagnostic>>
    /\ UNCHANGED OutsideEmitter

EmitterNext == TtyEmitter_emit_diagnostic_call

EmitterSpec == EmitterInit /\ [][EmitterNext]_vars

\* ----------------------------------------------------------- claim C35

\* Position pos lies inside registered file number n.
InsideFile(n, pos) ==
    files[n].span.start <= pos /\ pos < files[n].span.end

\* The span lies outside every file: neither its first nor its last
\* position is inside a registered file.
OutsideEveryFile(span) ==
    \A n \in 1..Len(files) :
        ~InsideFile(n, span.start) /\ ~InsideFile(n, span.end - 1)

\* The span crosses two files: its first position is inside one registered
\* file and its last position is inside another.
CrossesTwoFiles(span) ==
    \E n, m \in 1..Len(files) :
        n # m /\ InsideFile(n, span.start) /\ InsideFile(m, span.end - 1)

\* The emitter cannot resolve a snippet for the diagnostic.
NoSnippet ==
    \/ Span_is_dummy(Diagnostic_span(tty_diagnostic))
    \/ ~tty_source_map
    \/ OutsideEveryFile(Diagnostic_span(tty_diagnostic))
    \/ CrossesTwoFiles(Diagnostic_span(tty_diagnostic))

\* C35: when the primary span is the dummy span, no source map is attached,
\* the span lies outside every file, or the span crosses two files, the
\* emitter writes only the "<level>: <message>" line and returns normally.
C35_UnresolvedSnippetPrintsTitleOnly ==
    (tty_ret # NoRet /\ NoSnippet) =>
        /\ tty_ret.result = "returned"
        /\ tty_out = <<TitleRow(tty_diagnostic)>>

\* ----------------------------------------------------------- claim C36

\* The primary span lies inside registered file number n: its first and its
\* last position are inside the file.
SpanInsideFile(n, span) ==
    InsideFile(n, span.start) /\ InsideFile(n, span.end - 1)

\* The display column of pos in file.
DisplayColumn(file, pos) ==
    lookup_line_col_and_col_display(file, pos).col_display

\* The rows the emitter has written for the k-th covered line (k from 0):
\* they follow the title, the header and the gutter, four to a line.
SourceRowOf(k) == tty_out[3 + 4 * k + 2]
MarksRowOf(k) == tty_out[3 + 4 * k + 4]

\* C36: for a primary span inside one file the emitter prints each covered
\* source line followed, on the next output line, by a row of '^' (Error,
\* Warn) or '-' (Note); the marks start at the display column of span.start
\* on the first covered line and at column 0 on the others, and they end at
\* the display column of span.end on the last covered line and at the end
\* of the line on the others.
C36_EveryCoveredLineIsUnderlined ==
    \A n \in 1..Len(files) :
        (/\ tty_ret # NoRet
         /\ tty_source_map
         /\ SpanInsideFile(n, Diagnostic_span(tty_diagnostic))) =>
            LET file == files[n]
                span == Diagnostic_span(tty_diagnostic)
                first == LineHolding(file, span.start)
                last == LineHolding(file, span.end - 1)
            IN /\ tty_ret.result = "returned"
               /\ Len(tty_out) = 3 + 4 * (last - first + 1) + 1
               /\ \A k \in 0..(last - first) :
                     /\ SourceRowOf(k).kind = "source"
                     /\ SourceRowOf(k).source
                           = lookup_line_source(file, first + k)
                     /\ SourceRowOf(k).newline
                     /\ MarksRowOf(k).kind = "marks"
                     /\ MarksRowOf(k).mark_char
                           = (IF tty_diagnostic.level = "Note" THEN "-"
                              ELSE "^")
                     /\ MarksRowOf(k).mark_start_col
                           = (IF k = 0 THEN DisplayColumn(file, span.start)
                              ELSE 0)
                     /\ MarksRowOf(k).mark_end_col
                           = (IF k = last - first
                              THEN DisplayColumn(file, span.end)
                              ELSE DisplayColumn(file,
                                                 file.lines[first + k + 2] - 1))
                     /\ MarksRowOf(k).mark_start_col
                           <= MarksRowOf(k).mark_end_col

\* ----------------------------------------------------------- claim C37

\* The rows of marks the emitter has written, by their place in tty_out.
MarksRows == {i \in 1..Len(tty_out) : tty_out[i].kind = "marks"}

\* C37: when the primary span covers several lines and the emitter returns,
\* the primary label's message stands on exactly one row of marks, the one
\* of the line that contains the span's end (the last one written), and the
\* rows of marks of the other covered lines carry no message.
C37_MessageIsPrintedOnce ==
    \A n \in 1..Len(files) :
        (/\ tty_ret # NoRet
         /\ tty_ret.result = "returned"
         /\ tty_source_map
         /\ SpanInsideFile(n, Diagnostic_span(tty_diagnostic))
         /\ LineHolding(files[n], Diagnostic_span(tty_diagnostic).start)
               < LineHolding(files[n],
                             Diagnostic_span(tty_diagnostic).end - 1)) =>
            \E last \in MarksRows :
                /\ tty_out[last].message
                      = tty_diagnostic.labels.primary_label.message
                /\ \A i \in MarksRows \ {last} :
                      i < last /\ tty_out[i].message = ""

\* ----------------------------------------------------------- claim C40

\* C40: on a writer that takes every write emit_diagnostic does not panic
\* once lookup_lines_at_span of the primary span has succeeded: the lookups
\* after it succeed as well, and every row of marks ends at or after the
\* column it starts at.
C40_EmitDiagnosticDoesNotPanic ==
    (/\ tty_ret # NoRet
     /\ tty_source_map
     /\ \A r \in lookup_lines_at_span(Diagnostic_span(tty_diagnostic)) :
           IsOk(r)) =>
        /\ tty_ret.result = "returned"
        /\ \A i \in MarksRows :
              tty_out[i].mark_start_col <= tty_out[i].mark_end_col

\* ------------------------------------------------- path_helper::diff_paths

\* The number of segments of a path handed to diff_paths.
MaxComponents == 3

\* The segments of those paths as they are written between separators: two
\* names, "." and "..".
Segments == {"a", "b", ".", ".."}

\* The paths of n segments, as written.
RECURSIVE SegmentsOfLength(_)
SegmentsOfLength(n) ==
    IF n = 0 THEN {<<>>}
    ELSE {Append(s, c) : s \in SegmentsOfLength(n - 1), c \in Segments}

\* The paths handed to diff_paths: with or without a leading separator, and
\* at most MaxComponents segments.
PathInputs ==
    {[absolute |-> abs, segments |-> s] :
        abs \in BOOLEAN,
        s \in UNION {SegmentsOfLength(n) : n \in 0..MaxComponents}}

\* Path::is_absolute (Unix): the path has a root.
is_absolute(path) == path.absolute

\* Path::components: RootDir ("/") of an absolute path, then the segments;
\* a "." is a component (CurDir) only as the first segment of a relative
\* path and is dropped everywhere else, ".." is ParentDir, and every other
\* segment is Normal.
RECURSIVE components_from(_, _)
components_from(path, i) ==
    IF i > Len(path.segments) THEN <<>>
    ELSE IF path.segments[i] = "." /\ (i > 1 \/ path.absolute)
    THEN components_from(path, i + 1)
    ELSE <<path.segments[i]>> \o components_from(path, i + 1)

components(path) ==
    (IF path.absolute THEN <<"/">> ELSE <<>>) \o components_from(path, 1)

\* PathBuf::push of one component: a root replaces the path, every other
\* component is appended.
PathBuf_push(path, component) ==
    IF component = "/" THEN [absolute |-> TRUE, segments |-> <<>>]
    ELSE [path EXCEPT !.segments = Append(path.segments, component)]

\* comps.iter().map(|c| c.as_os_str()).collect(): the components pushed, one
\* after the other, onto the empty PathBuf.
RECURSIVE collect(_)
collect(comps) ==
    IF comps = <<>> THEN [absolute |-> FALSE, segments |-> <<>>]
    ELSE PathBuf_push(collect(SubSeq(comps, 1, Len(comps) - 1)),
                      comps[Len(comps)])

\* n times Component::ParentDir.
ParentDirs(n) == [i \in 1..n |-> ".."]

\* Mutant of diff_paths_loop: in the last arm the remaining components of
\* base are not counted.
RECURSIVE diff_paths_loop_one_parent(_, _, _)
diff_paths_loop_one_parent(ita, itb, comps) ==
    IF ita = <<>> /\ itb = <<>> THEN Some(comps)
    ELSE IF itb = <<>> THEN Some(comps \o ita)
    ELSE IF ita = <<>>
    THEN diff_paths_loop_one_parent(ita, Tail(itb), Append(comps, ".."))
    ELSE IF comps = <<>> /\ Head(ita) = Head(itb)
    THEN diff_paths_loop_one_parent(Tail(ita), Tail(itb), comps)
    ELSE IF Head(itb) = "."
    THEN diff_paths_loop_one_parent(Tail(ita), Tail(itb),
                                    Append(comps, Head(ita)))
    ELSE IF Head(itb) = ".." THEN None
    ELSE Some(comps \o <<"..">> \o ita)

\* diff_paths, the loop over the two component iterators: Some(comps) at a
\* break, None at the return.
RECURSIVE diff_paths_loop(_, _, _)
diff_paths_loop(ita, itb, comps) ==
    IF ita = <<>> /\ itb = <<>> THEN Some(comps)
    ELSE IF itb = <<>> THEN Some(comps \o ita)
    ELSE IF ita = <<>>
    THEN diff_paths_loop(ita, Tail(itb), Append(comps, ".."))
    ELSE IF comps = <<>> /\ Head(ita) = Head(itb)
    THEN diff_paths_loop(Tail(ita), Tail(itb), comps)
    ELSE IF Head(itb) = "."
    THEN diff_paths_loop(Tail(ita), Tail(itb), Append(comps, Head(ita)))
    ELSE IF Head(itb) = ".." THEN None
    ELSE Some(comps \o <<"..">> \o ParentDirs(Len(Tail(itb))) \o ita)

\* path_helper::diff_paths(path, base)
diff_paths(path, base) ==
    IF is_absolute(path) # is_absolute(base)
    THEN IF is_absolute(path) THEN Some(path) ELSE None
    ELSE LET comps == diff_paths_loop(components(path), components(base),
                                      <<>>)
         IN IF comps = None THEN None ELSE Some(collect(comps.val))

\* A caller holds a path and a base.
PathInit ==
    /\ SourceMap_new
    /\ NoSourceFile
    /\ NoSpan
    /\ NoBuilder
    /\ NoSymbol
    /\ NoArena
    /\ NoEmitter
    /\ diff_path \in PathInputs
    /\ diff_base \in PathInputs
    /\ diff_ret = NoRet

\* diff_paths(path, base)
diff_paths_call ==
    /\ diff_ret = NoRet
    /\ diff_ret' = [returned |-> diff_paths(diff_path, diff_base)]
    /\ UNCHANGED <<diff_path, diff_base>>
    /\ UNCHANGED OutsidePath

PathNext == diff_paths_call

PathSpec == PathInit /\ [][PathNext]_vars

\* ----------------------------------------------------------- claim C38

\* The path has no "." and no ".." segment.
Plain(path) ==
    \A i \in 1..Len(path.segments) : path.segments[i] \notin {".", ".."}

\* The number of leading segments the two paths have in common.
CommonPrefix(path, base) ==
    CHOOSE n \in 0..Len(path.segments) :
        /\ n <= Len(base.segments)
        /\ SubSeq(path.segments, 1, n) = SubSeq(base.segments, 1, n)
        /\ \/ n = Len(path.segments)
           \/ n = Len(base.segments)
           \/ path.segments[n + 1] # base.segments[n + 1]

\* C38: for two paths that are both absolute or both relative and have no
\* "." or ".." component, diff_paths(path, base) is the relative path made
\* of one ".." for every component of base after the common leading
\* components, followed by the components of path after them.
C38_DiffPathsIsTheRelativePath ==
    (/\ diff_ret # NoRet
     /\ diff_path.absolute = diff_base.absolute
     /\ Plain(diff_path)
     /\ Plain(diff_base)) =>
        LET n == CommonPrefix(diff_path, diff_base)
        IN /\ diff_ret.returned # None
           /\ ~diff_ret.returned.val.absolute
           /\ components(diff_ret.returned.val)
                 = ParentDirs(Len(diff_base.segments) - n)
                      \o SubSeq(diff_path.segments, n + 1,
                                Len(diff_path.segments))

\* diff_paths has returned for two plain paths that share a leading
\* component and then differ, with more than one component left in base.
C38_Witness ==
    /\ diff_ret # NoRet
    /\ diff_path.absolute = diff_base.absolute
    /\ Plain(diff_path)
    /\ Plain(diff_base)
    /\ CommonPrefix(diff_path, diff_base) >= 1
    /\ Len(diff_base.segments) - CommonPrefix(diff_path, diff_base) >= 2
    /\ Len(diff_path.segments) > CommonPrefix(diff_path, diff_base)
    /\ diff_ret.returned # None

\* ----------------------------------------------------------- claim C39

\* The threads that have allocated position space for the local file of
\* SourcePath file_path and have not yet pushed it.
AllocatedFor(file_path) ==
    {t \in Threads :
        /\ pc[t] = "local_push"
        /\ local_file_path(canonicalize(local[t].path).val) = file_path}

\* The places of `files` that hold a file of SourcePath file_path.
FilesOf(file_path) == {i \in 1..Len(files) : files[i].path = file_path}

\* C39: under every interleaving of load_local_file calls `files` holds at
\* most one file per SourcePath, every file in `files` is the value of the
\* path index under its own path, every value of the path index occurs in
\* `files`, and position space is allocated at most once per path.
C39_OneFilePerPath ==
    /\ \A i, j \in 1..Len(files) :
          files[i].path = files[j].path => i = j
    /\ \A i \in 1..Len(files) :
          /\ files[i].path \in DOMAIN files_map
          /\ files_map[files[i].path] = files[i]
    /\ \A k \in DOMAIN files_map :
          \E i \in 1..Len(files) : files[i] = files_map[k]
    /\ \A file_path \in {local_file_path(canonicalize(p).val) :
                            p \in {q \in Paths : IsOk(canonicalize(q))}} :
          Cardinality(FilesOf(file_path))
              + Cardinality(AllocatedFor(file_path)) <= 1

====
